---- MODULE Spec2Model ----
(***************************************************************************)
(* Model of the veddy-backend answer pipeline.                             *)
(*                                                                         *)
(*  Spec        the web answer stream (routers/chat_router.py,             *)
(*              generate_stream) and the shared orchestrator               *)
(*              (services/unified_chat_service.py, process_chat), both     *)
(*              driving the generator process_query_streaming of           *)
(*              services/langchain_rag_service.py.                         *)
(*  SpecDetect  the comparison detector of services/comparison_service.py, *)
(*              applied to bounded queries and histories.                  *)
(*                                                                         *)
(* Text is a sequence of characters; a character is a TLA+ string naming   *)
(* one code point ("SP" space, "NL" newline, "BOOK" U+1F4DA, "k_wa" the     *)
(* Hangul syllable U+C640, and so on for the other "k_" names).            *)
(***************************************************************************)
EXTENDS Integers, Sequences, FiniteSets, TLC

VARIABLES
    endpoint,       \* "web" (generate_stream) or "chat" (process_chat) or "none"
    pc,             \* position of the request's coroutine
    has_key,        \* comparison_info carries the key "is_comparison"
    clock,          \* seconds elapsed since the stream started
    gen,            \* process_query_streaming: "running", "errored", "ended"
    n_chunks,       \* LLM chunks consumed by the generator
    n_yielded,      \* tokens the generator has yielded
    gen_done_at,    \* clock value when the generator was exhausted, -1 before
    full_response,  \* accumulator of the consuming loop
    formatted,      \* web: the reformatted answer
    idx,            \* web: index i of the delivery loop
    frames,         \* everything yielded to the client, in order
    messages,       \* rows this request inserted into the messages table
    disconnected,   \* the client has gone away
    d_pc,           \* detector: "input" or "done"
    d_query,        \* detector input: query
    d_history,      \* detector input: history text, or NoneValue
    d_context,      \* detector input: conversation_context, or NoneList
    d_result,       \* detector output record
    r_pc,           \* retrieval: position in process_query_streaming
    r_table_mode,   \* retrieval input: table_mode
    r_reranking,    \* RERANKER_CONFIG['enabled']
    r_info,         \* retrieval input: comparison_info
    r_envs,         \* outcome of the collaborators during each search
    r_queries,      \* the queries handed to search_hybrid, in call order
    r_found,        \* (context_text, raw_chunks) returned by the search
    r_lookups,      \* per search, the rows whose parent document was queried
    r_template,     \* the prompt template selected
    c_pc,           \* chunker: position in chunk_text
    c_tokens,       \* chunker: the token list of the text
    c_config,       \* chunker: chunk_tokens, overlap_tokens, min_chunk_tokens
    c_start,        \* chunker: the loop variable start
    c_windows,      \* chunker: the (start, end) windows considered so far
    c_chunks,       \* chunker: the list chunks
    c_iter,         \* chunker: iterations of the while loop so far
    t_pc,           \* Teams: position in handle_teams_message
    t_activity,     \* Teams: the incoming activity
    t_table_mode,   \* Teams: table_mode derived from the message
    t_history,      \* Teams: number of history entries loaded
    t_answer,       \* Teams: the variable answer
    t_attempt,      \* Teams: the loop variable attempt of the save loop
    t_inserted,     \* Teams: rows inserted into the messages table
    t_error,        \* Teams: the exception caught by the outer handler
    t_status,       \* Teams: the response of the endpoint
    t_sent,         \* Teams: the activities posted to the channel, in order
    n_pc,           \* normalizer: "input", "once" or "twice"
    n_fn,           \* normalizer: which of the two functions is called
    n_text,         \* normalizer: the input text
    n_once,         \* normalizer: the result of the first call
    n_twice,        \* normalizer: the result of the call on that result
    w_endpoint,     \* event loop: the endpoint each request came in on
    w_holder,       \* event loop: the request whose task is running, 0 when none
    w_pos,          \* event loop: the external call each request has reached
    w_waiting,      \* event loop: the request is inside an external call
    w_tokens,       \* event loop: tokens each request has received from the LLM
    h_pc,           \* position of the web request in chat_stream
    h_query,        \* request_body.query
    h_history,      \* history_text
    h_supplied,     \* request_body.comparison_info: <<>> for None, else <<info>>
    h_info,         \* comparison_info handed to process_query_streaming
    h_passed,       \* the supabase_client argument of process_query_streaming
    h_calls,        \* database calls of the retrieval, each with the client that issued it
    g_pc,           \* position of process_chat under process_chat_non_streaming
    g_chunks,       \* chunks the LLM stream has yet to deliver
    g_raw,          \* the chunks the LLM stream has delivered so far
    g_text,         \* full_response of process_chat
    g_yielded,      \* content tokens process_chat has yielded
    g_stored,       \* responses handed to save_message that were saved
    g_response,     \* full_response of process_chat_non_streaming
    l_pc,           \* position of the Confluence load stream
    l_runs,         \* load runs started
    l_idx,          \* index of the page being processed
    l_pages,        \* version (updated_at) of every Confluence page
    l_docs,         \* updated_at of the documents row of every page, 0 without a row
    l_chunks,       \* number of document_chunks rows of every page
    l_counts        \* success_count, skip_count and error_count of the run

vars == << endpoint, pc, has_key, clock, gen, n_chunks, n_yielded, gen_done_at,
           full_response, formatted, idx, frames, messages, disconnected,
           d_pc, d_query, d_history, d_context, d_result,
           r_pc, r_table_mode, r_reranking, r_info, r_envs, r_queries,
           r_found, r_lookups, r_template,
           c_pc, c_tokens, c_config, c_start, c_windows, c_chunks, c_iter,
           t_pc, t_activity, t_table_mode, t_history, t_answer, t_attempt,
           t_inserted, t_error, t_status, t_sent,
           n_pc, n_fn, n_text, n_once, n_twice,
           w_endpoint, w_holder, w_pos, w_waiting, w_tokens,
           h_pc, h_query, h_history, h_supplied, h_info, h_passed, h_calls,
           g_pc, g_chunks, g_raw, g_text, g_yielded, g_stored, g_response,
           l_pc, l_runs, l_idx, l_pages, l_docs, l_chunks, l_counts >>

streamVars == << endpoint, pc, has_key, clock, gen, n_chunks, n_yielded,
                 gen_done_at, full_response, formatted, idx, frames, messages,
                 disconnected >>

detectVars == << d_pc, d_query, d_history, d_context, d_result >>

ragVars == << r_pc, r_table_mode, r_reranking, r_info, r_envs, r_queries,
              r_found, r_lookups, r_template >>

\* what an action of the answer stream, of the detector and of the retrieval
\* leaves alone
chunkVars == << c_pc, c_tokens, c_config, c_start, c_windows, c_chunks,
                c_iter >>

teamsVars == << t_pc, t_activity, t_table_mode, t_history, t_answer,
                t_attempt, t_inserted, t_error, t_status, t_sent >>

normVars == << n_pc, n_fn, n_text, n_once, n_twice >>

loopVars == << w_endpoint, w_holder, w_pos, w_waiting, w_tokens >>

routeVars == << h_pc, h_query, h_history, h_supplied, h_info, h_passed, h_calls >>

syncVars == << g_pc, g_chunks, g_raw, g_text, g_yielded, g_stored, g_response >>

loadVars == << l_pc, l_runs, l_idx, l_pages, l_docs, l_chunks, l_counts >>

nonStreamVars == << detectVars, ragVars, chunkVars, teamsVars, normVars, loopVars, routeVars, syncVars, loadVars >>
nonDetectVars == << streamVars, ragVars, chunkVars, teamsVars, normVars, loopVars, routeVars, syncVars, loadVars >>
nonRagVars == << streamVars, detectVars, chunkVars, teamsVars, normVars, loopVars, routeVars, syncVars, loadVars >>
nonChunkVars == << streamVars, detectVars, ragVars, teamsVars, normVars, loopVars, routeVars, syncVars, loadVars >>
nonTeamsVars == << streamVars, detectVars, ragVars, chunkVars, normVars, loopVars, routeVars, syncVars, loadVars >>
nonNormVars == << streamVars, detectVars, ragVars, chunkVars, teamsVars, loopVars, routeVars, syncVars, loadVars >>
nonLoopVars == << streamVars, detectVars, ragVars, chunkVars, teamsVars, normVars, routeVars, syncVars, loadVars >>
nonRouteVars == << streamVars, detectVars, ragVars, chunkVars, teamsVars, normVars, loopVars, syncVars, loadVars >>
nonSyncVars == << streamVars, detectVars, ragVars, chunkVars, teamsVars, normVars, loopVars, routeVars, loadVars >>
nonLoadVars == << streamVars, detectVars, ragVars, chunkVars, teamsVars, normVars, loopVars, routeVars, syncVars >>

----------------------------------------------------------------------------
(* Bounds *)

\* LLM chunks one request's stream may deliver
MaxChunks == 2

----------------------------------------------------------------------------
(* Program constants *)

\* asyncio.wait_for(..., timeout=120.0) / elapsed > 120.0
TIMEOUT == 120

\* i % 100 == 0 and await request.is_disconnected()
DISCONNECT_STRIDE == 100

\* Python's None where a string is expected, and where a list of messages is
NoneValue == <<"None">>
NoneList == <<NoneValue>>

----------------------------------------------------------------------------
(* Characters and text helpers *)

Whitespace == {"SP", "NL"}

Digits == {"0", "1", "2", "3", "4", "5", "6", "7", "8", "9"}

UpperLetters == {"A", "B", "C", "D", "E", "I", "M", "O", "R", "S", "U", "V"}

Concat(s, t) == s \o t

\* sub occurs in s as a contiguous substring (Python: sub in s)
Contains(sub, s) ==
    \E k \in 0..(Len(s) - Len(sub)) :
        \A j \in 1..Len(sub) : s[k + j] = sub[j]

SetMin(S) == CHOOSE m \in S : \A x \in S : m <= x

SetMax(S) == CHOOSE m \in S : \A x \in S : x <= m

\* end index of the maximal run of characters of class cls starting at i
\* (i - 1 when s[i] is not in cls)
RunEnd(s, i, cls) ==
    LET stops == {k \in i..Len(s) : s[k] \notin cls}
    IN  IF stops = {} THEN Len(s) ELSE SetMin(stops) - 1

\* end index of the maximal run of characters outside cls starting at i
RunEndNot(s, i, cls) ==
    LET stops == {k \in i..Len(s) : s[k] \in cls}
    IN  IF stops = {} THEN Len(s) ELSE SetMin(stops) - 1

\* unicodedata.normalize('NFC', s): a base letter followed by its combining
\* mark composes into the precomposed letter
RECURSIVE NFCFrom(_, _)
NFCFrom(s, i) ==
    LET M == {m \in i..(Len(s) - 1) : s[m] = "e" /\ s[m + 1] = "ACUTE"}
    IN  IF M = {} THEN SubSeq(s, i, Len(s))
        ELSE SubSeq(s, i, SetMin(M) - 1) \o <<"e_acute">>
             \o NFCFrom(s, SetMin(M) + 2)

NFC(s) == NFCFrom(s, 1)

----------------------------------------------------------------------------
(* Frames *)

TokenFrame(text) == [type |-> "token", payload |-> text]
ErrorFrame(msg) == [type |-> "error", payload |-> <<msg>>]
DoneFrame == [type |-> "done", payload |-> <<>>]

----------------------------------------------------------------------------
(* Web endpoint, phase 4: reformatting of the collected answer *)

RefKeyword == <<"k_cham", "k_go", "SP", "k_mun", "k_seo">>

RefPlaceholder ==
    <<"NL", "NL", "BOOK", "SP", "k_cham", "k_go", "SP", "k_mun", "k_seo", ":",
      "NL", "(", "k_geom", "k_saek", "SP", "k_gyeol", "k_gwa", "SP", "k_eops",
      "k_eum", ")">>

\* For \s+([^\n]+) with the whitespace run starting at a: the index where the
\* group [^\n]+ starts after greedy matching and backtracking, 0 if no match
TailStart(s, a) ==
    LET b == RunEnd(s, a, Whitespace)
        K == {k \in (a + 1)..b : s[k] # "NL"}
    IN  IF b + 1 <= Len(s) THEN b + 1
        ELSE IF K = {} THEN 0 ELSE SetMax(K)

\* re.sub(r'(\d+\.)\s+', r'\1\n\n', s): a match starts at m
NumberedAt(s, m) ==
    /\ s[m] \in Digits
    /\ LET j == RunEnd(s, m, Digits)
       IN  j + 2 <= Len(s) /\ s[j + 1] = "." /\ s[j + 2] \in Whitespace

RECURSIVE NumberedFrom(_, _)
NumberedFrom(s, i) ==
    LET M == {m \in i..Len(s) : NumberedAt(s, m)}
    IN  IF M = {} THEN SubSeq(s, i, Len(s))
        ELSE LET m == SetMin(M)
                 j == RunEnd(s, m, Digits)
             IN  SubSeq(s, i, j + 1) \o <<"NL", "NL">>
                 \o NumberedFrom(s, RunEnd(s, j + 2, Whitespace) + 1)

\* re.sub(r'(#{1,3})\s+([^\n]+)', r'\1 \2\n\n', s): start of group 2 for a
\* match starting at m, 0 if there is no match at m
HeadingTail(s, m) ==
    IF s[m] # "#" THEN 0
    ELSE LET h == RunEnd(s, m, {"#"})
         IN  IF h - m + 1 <= 3 /\ h + 1 <= Len(s) /\ s[h + 1] \in Whitespace
             THEN TailStart(s, h + 1) ELSE 0

RECURSIVE HeadingFrom(_, _)
HeadingFrom(s, i) ==
    LET M == {m \in i..Len(s) : HeadingTail(s, m) # 0}
    IN  IF M = {} THEN SubSeq(s, i, Len(s))
        ELSE LET m == SetMin(M)
                 h == RunEnd(s, m, {"#"})
                 st == HeadingTail(s, m)
                 e == RunEndNot(s, st, {"NL"})
             IN  SubSeq(s, i, h) \o <<"SP">> \o SubSeq(s, st, e)
                 \o <<"NL", "NL">> \o HeadingFrom(s, e + 1)

\* re.sub(r'(-\s+[^\n]+)', r'\1\n', s): start of [^\n]+ for a match at m
BulletTail(s, m) ==
    IF s[m] = "-" /\ m + 1 <= Len(s) /\ s[m + 1] \in Whitespace
    THEN TailStart(s, m + 1) ELSE 0

RECURSIVE BulletFrom(_, _)
BulletFrom(s, i) ==
    LET M == {m \in i..Len(s) : BulletTail(s, m) # 0}
    IN  IF M = {} THEN SubSeq(s, i, Len(s))
        ELSE LET m == SetMin(M)
                 e == RunEndNot(s, BulletTail(s, m), {"NL"})
             IN  SubSeq(s, i, e) \o <<"NL">> \o BulletFrom(s, e + 1)

\* if '참고 문서' not in formatted and '📚' not in formatted: formatted += ...
AddReferences(s) ==
    IF ~Contains(RefKeyword, s) /\ ~Contains(<<"BOOK">>, s)
    THEN s \o RefPlaceholder ELSE s

\* re.sub(r'\n{4,}', '\n\n', s)
CollapseAt(s, m) ==
    s[m] = "NL" /\ RunEnd(s, m, {"NL"}) - m + 1 >= 4

RECURSIVE CollapseFrom(_, _)
CollapseFrom(s, i) ==
    LET M == {m \in i..Len(s) : CollapseAt(s, m)}
    IN  IF M = {} THEN SubSeq(s, i, Len(s))
        ELSE LET m == SetMin(M)
             IN  SubSeq(s, i, m - 1) \o <<"NL", "NL">>
                 \o CollapseFrom(s, RunEnd(s, m, {"NL"}) + 1)

FormatResponse(s) ==
    CollapseFrom(
        AddReferences(BulletFrom(HeadingFrom(NumberedFrom(s, 1), 1), 1)), 1)


----------------------------------------------------------------------------
(* process_query_streaming: the token generator both endpoints consume *)

\* str(e) of an exception raised inside the generator's try block
RawExceptionText == <<"EXC">>

\* yield f"\n\n[오류]\n{str(e)}"
ErrorToken(e) == <<"NL", "NL", "[", "k_o", "k_ryu", "]", "NL">> \o e

LongChunk == [k \in 1..DISCONNECT_STRIDE |-> "a"]

\* contents an LLM chunk may carry (chunk.content); <<>> is an empty chunk
LLMChunks ==
    { <<>>,
      <<"a">>,
      <<"1", ".", "SP", "a">>,
      <<"#", "SP", "a">>,
      <<"-", "SP", "a", "NL", "NL", "NL", "NL">>,
      <<"BOOK">>,
      LongChunk }

\* seconds one call into the LLM stream may block
Delays == {0, 70}

\* for chunk in self.llm.stream(messages): a chunk with content is
\* normalized and yielded
GenYields(c) == c # <<>>

GenToken(c) == NFC(c)

\* retrieval, prompt formatting and the LLM stream run inside one try block;
\* the handler yields the error token and the generator then finishes
GenCanStep == gen = "running" /\ n_chunks < MaxChunks

\* an empty chunk is consumed inside the generator; nothing is yielded
GenSkip ==
    /\ pc = "collect"
    /\ GenCanStep
    /\ \E dt \in Delays : clock' = clock + dt
    /\ n_chunks' = n_chunks + 1
    /\ UNCHANGED << endpoint, has_key, pc, gen, n_yielded, gen_done_at,
                    full_response, formatted, idx, frames, messages,
                    disconnected, nonStreamVars >>

----------------------------------------------------------------------------
(* Web endpoint: chat_router.chat_stream / generate_stream *)

KeyErrorText ==
    <<"'", "i", "s", "_", "c", "o", "m", "p", "a", "r", "i", "s", "o", "n", "'">>

LowerAscii(c) ==
    CASE c = "A" -> "a" [] c = "B" -> "b" [] c = "C" -> "c" [] c = "D" -> "d"
      [] c = "E" -> "e" [] c = "I" -> "i" [] c = "M" -> "m" [] c = "O" -> "o"
      [] c = "R" -> "r" [] c = "S" -> "s" [] c = "U" -> "u" [] c = "V" -> "v"
      [] OTHER -> c

\* str.lower()
Lower(s) == [k \in 1..Len(s) |-> LowerAscii(s[k])]

\* the message chosen by the except handler from str(e).lower()
WebErrorMessage(e) ==
    LET t == Lower(e)
        base ==
            IF Contains(<<"t", "i", "m", "e", "o", "u", "t">>, t)
            THEN "MSG_TIMEOUT"
            ELSE IF Contains(<<"c", "o", "n", "n", "e", "c", "t", "i", "o", "n">>, t)
            THEN "MSG_NETWORK"
            ELSE IF Contains(<<"e", "m", "b", "e", "d", "d", "i", "n", "g">>, t)
            THEN "MSG_SEARCH"
            ELSE IF Contains(<<"h", "y", "b", "r", "i", "d">>, t)
            THEN "MSG_HYBRID"
            ELSE "MSG_GENERIC"
    IN  <<base, "MSG_RETRY_LATER">>

WebErrorFrame(e) == [type |-> "error", payload |-> WebErrorMessage(e)]

\* generate_stream is entered; rag_with_timeout reads
\* comparison_info["is_comparison"] before it starts the generator
WebStart ==
    /\ endpoint = "web"
    /\ pc = "start"
    /\ IF has_key
       THEN pc' = "collect" /\ gen' = "running"
       ELSE pc' = "except" /\ gen' = gen
    /\ UNCHANGED << endpoint, has_key, clock, n_chunks, n_yielded, gen_done_at,
                    full_response, formatted, idx, frames, messages,
                    disconnected, nonStreamVars >>

\* variant: the collecting loop forwards each token as it arrives
WebCollectFrames_Live(fr, token) == Append(fr, TokenFrame(token))

\* frames the collecting loop emits for one token: none, it only accumulates
WebCollectFrames(fr, token) == fr

\* for token in process_query_streaming(...): if token: full_response += token
WebCollectToken ==
    /\ endpoint = "web"
    /\ pc = "collect"
    /\ GenCanStep
    /\ \E c \in LLMChunks, dt \in Delays :
        /\ GenYields(c)
        /\ clock' = clock + dt
        /\ full_response' = full_response \o GenToken(c)
        /\ frames' = WebCollectFrames(frames, GenToken(c))
    /\ n_chunks' = n_chunks + 1
    /\ n_yielded' = n_yielded + 1
    /\ UNCHANGED << endpoint, has_key, pc, gen, gen_done_at, formatted, idx,
                    messages, disconnected, nonStreamVars >>

\* an exception inside the generator: the error token is yielded and
\* accumulated like any other token
WebCollectError ==
    /\ endpoint = "web"
    /\ pc = "collect"
    /\ gen = "running"
    /\ \E dt \in Delays : clock' = clock + dt
    /\ full_response' = full_response \o ErrorToken(RawExceptionText)
    /\ frames' = WebCollectFrames(frames, ErrorToken(RawExceptionText))
    /\ gen' = "errored"
    /\ n_yielded' = n_yielded + 1
    /\ UNCHANGED << endpoint, has_key, pc, n_chunks, gen_done_at, formatted,
                    idx, messages, disconnected, nonStreamVars >>

\* variant: the row keeps the unformatted accumulator
WebStoredResponse_Raw(full, fmt) == full

\* the text written to messages.ai_response
WebStoredResponse(full, fmt) == fmt

\* The generator is exhausted and wait_for returns.  rag_with_timeout has no
\* suspension point, so the timer of wait_for cannot fire before it returns:
\* the elapsed time is not examined.  Phases 4 and 5 follow without
\* suspension: reformat, then insert the row (the insert may fail and is
\* only logged).
WebCollectEnd ==
    /\ endpoint = "web"
    /\ pc = "collect"
    /\ gen \in {"running", "errored"}
    /\ \E dt \in Delays :
        /\ clock' = clock + dt
        /\ gen_done_at' = clock + dt
    /\ gen' = "ended"
    /\ formatted' = FormatResponse(full_response)
    /\ \E saved \in BOOLEAN :
        messages' = IF saved
                    THEN Append(messages,
                                WebStoredResponse(full_response, formatted'))
                    ELSE messages
    /\ idx' = 0
    /\ pc' = "deliver"
    /\ UNCHANGED << endpoint, has_key, n_chunks, n_yielded, full_response,
                    frames, disconnected, nonStreamVars >>

\* variant: the disconnect branch still closes the stream with a done frame
WebOnDisconnect_Done ==
    /\ frames' = Append(frames, DoneFrame)
    /\ messages' = messages

\* variant: the disconnect branch withdraws the stored row
WebOnDisconnect_Rollback ==
    /\ frames' = frames
    /\ messages' = <<>>

\* if i % 100 == 0 and await request.is_disconnected(): return
WebOnDisconnect ==
    /\ frames' = frames
    /\ messages' = messages

WebDisconnectCheck ==
    /\ endpoint = "web"
    /\ pc = "deliver"
    /\ idx < Len(formatted)
    /\ idx % DISCONNECT_STRIDE = 0
    /\ disconnected
    /\ WebOnDisconnect
    /\ pc' = "disconnected"
    /\ UNCHANGED << endpoint, has_key, clock, gen, n_chunks, n_yielded,
                    gen_done_at, full_response, formatted, idx,
                    disconnected, nonStreamVars >>

\* yield one token frame for formatted[i]
WebDeliverChar ==
    /\ endpoint = "web"
    /\ pc = "deliver"
    /\ idx < Len(formatted)
    /\ ~(idx % DISCONNECT_STRIDE = 0 /\ disconnected)
    /\ frames' = Append(frames, TokenFrame(<<formatted[idx + 1]>>))
    /\ idx' = idx + 1
    /\ UNCHANGED << endpoint, has_key, pc, clock, gen, n_chunks, n_yielded,
                    gen_done_at, full_response, formatted, messages,
                    disconnected, nonStreamVars >>

\* the loop is over: yield the done frame
WebDone ==
    /\ endpoint = "web"
    /\ pc = "deliver"
    /\ idx = Len(formatted)
    /\ frames' = Append(frames, DoneFrame)
    /\ pc' = "done"
    /\ UNCHANGED << endpoint, has_key, clock, gen, n_chunks, n_yielded,
                    gen_done_at, full_response, formatted, idx, messages,
                    disconnected, nonStreamVars >>

\* except asyncio.CancelledError: return  (the transport cancels the
\* generator at one of its suspension points once the client is gone)
WebCancelled ==
    /\ endpoint = "web"
    /\ pc = "deliver"
    /\ disconnected
    /\ pc' = "cancelled"
    /\ UNCHANGED << endpoint, has_key, clock, gen, n_chunks, n_yielded,
                    gen_done_at, full_response, formatted, idx, frames,
                    messages, disconnected, nonStreamVars >>

\* except Exception as e: yield the error frame with the chosen message
WebExcept ==
    /\ endpoint = "web"
    /\ pc = "except"
    /\ frames' = Append(frames, WebErrorFrame(KeyErrorText))
    /\ pc' = "error"
    /\ UNCHANGED << endpoint, has_key, clock, gen, n_chunks, n_yielded,
                    gen_done_at, full_response, formatted, idx, messages,
                    disconnected, nonStreamVars >>

\* the client goes away while the response is being produced
ClientDisconnect ==
    /\ endpoint = "web"
    /\ pc \in {"start", "collect", "deliver"}
    /\ ~disconnected
    /\ disconnected' = TRUE
    /\ UNCHANGED << endpoint, has_key, pc, clock, gen, n_chunks, n_yielded,
                    gen_done_at, full_response, formatted, idx, frames,
                    messages, nonStreamVars >>


----------------------------------------------------------------------------
(* Shared orchestrator: UnifiedChatService.process_chat *)

\* "요청 처리 시간이 초과되었습니다. 잠시 후 다시 시도해 주세요."
ChatTimeoutFrame ==
    [type |-> "error", payload |-> <<"MSG_TIMEOUT", "MSG_RETRY_LATER">>]

\* user_service.get_or_create_user re-raises on failure and the call is
\* outside any try block: the exception leaves the generator.  On success
\* the history is loaded (a failure there yields ""), the comparison is
\* detected and the loop over the generator starts.
ChatStart ==
    /\ endpoint = "chat"
    /\ pc = "start"
    /\ \E user_ok \in BOOLEAN :
        IF user_ok
        THEN pc' = "collect" /\ gen' = "running"
        ELSE pc' = "raised" /\ gen' = gen
    /\ UNCHANGED << endpoint, has_key, clock, n_chunks, n_yielded, gen_done_at,
                    full_response, formatted, idx, frames, messages,
                    disconnected, nonStreamVars >>

\* variant: the clock is examined only after the token was passed on
ChatOnTimeout_Late(token) ==
    /\ frames' = frames \o <<TokenFrame(token), ChatTimeoutFrame>>
    /\ full_response' = full_response \o token
    /\ pc' = "timeout"

\* if elapsed > 120.0: yield the error frame; return
ChatOnTimeout(token) ==
    /\ frames' = Append(frames, ChatTimeoutFrame)
    /\ full_response' = full_response
    /\ pc' = "timeout"

\* if token: full_response += token; yield token
ChatOnToken(token) ==
    /\ full_response' = full_response \o token
    /\ frames' = Append(frames, TokenFrame(token))
    /\ pc' = pc

\* the loop body, run when the generator hands over a token
ChatLoopBody(token) ==
    IF clock' > TIMEOUT THEN ChatOnTimeout(token) ELSE ChatOnToken(token)

ChatCollectToken ==
    /\ endpoint = "chat"
    /\ pc = "collect"
    /\ GenCanStep
    /\ \E c \in LLMChunks, dt \in Delays :
        /\ GenYields(c)
        /\ clock' = clock + dt
        /\ ChatLoopBody(GenToken(c))
    /\ n_chunks' = n_chunks + 1
    /\ n_yielded' = n_yielded + 1
    /\ UNCHANGED << endpoint, has_key, gen, gen_done_at, formatted, idx,
                    messages, disconnected, nonStreamVars >>

\* an exception inside the generator reaches the loop as the error token
ChatCollectError ==
    /\ endpoint = "chat"
    /\ pc = "collect"
    /\ gen = "running"
    /\ \E dt \in Delays :
        /\ clock' = clock + dt
        /\ ChatLoopBody(ErrorToken(RawExceptionText))
    /\ gen' = "errored"
    /\ n_yielded' = n_yielded + 1
    /\ UNCHANGED << endpoint, has_key, n_chunks, gen_done_at, formatted, idx,
                    messages, disconnected, nonStreamVars >>

\* the generator is exhausted: the loop ends without looking at the clock
ChatCollectEnd ==
    /\ endpoint = "chat"
    /\ pc = "collect"
    /\ gen \in {"running", "errored"}
    /\ \E dt \in Delays :
        /\ clock' = clock + dt
        /\ gen_done_at' = clock + dt
    /\ gen' = "ended"
    /\ pc' = "save"
    /\ UNCHANGED << endpoint, has_key, n_chunks, n_yielded, full_response,
                    formatted, idx, frames, messages, disconnected,
                    nonStreamVars >>

\* the text handed to history_service.save_message(response=...)
ChatStoredResponse(full) == full

\* save_message returns False on failure; the done frame follows either way
ChatSave ==
    /\ endpoint = "chat"
    /\ pc = "save"
    /\ \E saved \in BOOLEAN :
        messages' = IF saved
                    THEN Append(messages, ChatStoredResponse(full_response))
                    ELSE messages
    /\ frames' = Append(frames, DoneFrame)
    /\ pc' = "done"
    /\ UNCHANGED << endpoint, has_key, clock, gen, n_chunks, n_yielded,
                    gen_done_at, full_response, formatted, idx, disconnected,
                    nonStreamVars >>

----------------------------------------------------------------------------
(* Specification of the answer stream *)

LoadIdle ==
    /\ l_pc = "idle"
    /\ l_runs = 0
    /\ l_idx = 0
    /\ l_pages = <<>>
    /\ l_docs = <<>>
    /\ l_chunks = <<>>
    /\ l_counts = <<>>

SyncIdle ==
    /\ g_pc = "idle"
    /\ g_chunks = <<>>
    /\ g_raw = <<>>
    /\ g_text = <<>>
    /\ g_yielded = <<>>
    /\ g_stored = <<>>
    /\ g_response = <<>>

RouteIdle ==
    /\ h_pc = "idle"
    /\ h_query = <<>>
    /\ h_history = <<>>
    /\ h_supplied = <<>>
    /\ h_info = <<>>
    /\ h_passed = "none"
    /\ h_calls = <<>>

LoopIdle ==
    /\ w_endpoint = <<>>
    /\ w_holder = 0
    /\ w_pos = <<>>
    /\ w_waiting = <<>>
    /\ w_tokens = <<>>

DetectIdle ==
    /\ d_pc = "idle"
    /\ d_query = <<>>
    /\ d_history = <<>>
    /\ d_context = <<>>
    /\ d_result = [is_comparison |-> FALSE, topics |-> <<>>, confidence |-> 0,
                   detection_method |-> "none"]

RagIdle ==
    /\ r_pc = "idle"
    /\ r_table_mode = FALSE
    /\ r_reranking = FALSE
    /\ r_info = [is_comparison |-> FALSE, topics |-> <<>>]
    /\ r_envs = <<>>
    /\ r_queries = <<>>
    /\ r_found = [context |-> <<>>, chunks |-> <<>>]
    /\ r_lookups = <<>>
    /\ r_template = [system |-> <<>>, user |-> <<>>]

ChunkIdle ==
    /\ c_pc = "idle"
    /\ c_tokens = <<>>
    /\ c_config = [chunk_tokens |-> 1, overlap_tokens |-> 0,
                   min_chunk_tokens |-> 0]
    /\ c_start = 0
    /\ c_windows = <<>>
    /\ c_chunks = <<>>
    /\ c_iter = 0

NormIdle ==
    /\ n_pc = "idle"
    /\ n_fn = "none"
    /\ n_text = <<>>
    /\ n_once = <<>>
    /\ n_twice = <<>>

TeamsIdle ==
    /\ t_pc = "idle"
    /\ t_activity = [type |-> "none", text |-> NoneValue]
    /\ t_table_mode = FALSE
    /\ t_history = 0
    /\ t_answer = <<>>
    /\ t_attempt = 0
    /\ t_inserted = 0
    /\ t_error = [raised |-> FALSE, mentions |-> {}]
    /\ t_status = "none"
    /\ t_sent = <<>>

Init ==
    /\ LoadIdle
    /\ SyncIdle
    /\ RouteIdle
    /\ LoopIdle
    /\ endpoint \in {"web", "chat"}
    /\ has_key \in (IF endpoint = "web" THEN BOOLEAN ELSE {TRUE})
    /\ pc = "start"
    /\ clock = 0
    /\ gen = "idle"
    /\ n_chunks = 0
    /\ n_yielded = 0
    /\ gen_done_at = -1
    /\ full_response = <<>>
    /\ formatted = <<>>
    /\ idx = 0
    /\ frames = <<>>
    /\ messages = <<>>
    /\ disconnected = FALSE
    /\ DetectIdle
    /\ RagIdle
    /\ ChunkIdle
    /\ TeamsIdle
    /\ NormIdle

Next ==
    \/ GenSkip
    \/ WebStart
    \/ WebCollectToken
    \/ WebCollectError
    \/ WebCollectEnd
    \/ WebDisconnectCheck
    \/ WebDeliverChar
    \/ WebDone
    \/ WebCancelled
    \/ WebExcept
    \/ ClientDisconnect
    \/ ChatStart
    \/ ChatCollectToken
    \/ ChatCollectError
    \/ ChatCollectEnd
    \/ ChatSave

Spec == Init /\ [][Next]_vars


----------------------------------------------------------------------------
(* Properties of the answer stream *)

IsTerminal(f) == f.type \in {"done", "error"}

TerminalPositions == {k \in 1..Len(frames) : IsTerminal(frames[k])}

TokenPositions == {k \in 1..Len(frames) : frames[k].type = "token"}

\* payloads of fs[lo..hi] concatenated in order
RECURSIVE PayloadText(_, _, _)
PayloadText(fs, lo, hi) ==
    IF lo > hi THEN <<>>
    ELSE IF lo = hi THEN fs[lo].payload
    ELSE LET mid == (lo + hi) \div 2
         IN  PayloadText(fs, lo, mid) \o PayloadText(fs, mid + 1, hi)

\* payloads of the token frames, in emission order (a terminal frame, when
\* present, is the last frame)
TokenText ==
    PayloadText(frames, 1, IF TerminalPositions = {} THEN Len(frames)
                           ELSE SetMin(TerminalPositions) - 1)

\* C1 (as claimed): at most one terminal frame (done or error) is emitted,
\* no frame follows it, and every run that ends without a client disconnect
\* has emitted exactly one terminal frame.
C1_ExactlyOneTerminalFrame ==
    /\ Cardinality(TerminalPositions) <= 1
    /\ \A k \in TerminalPositions : k = Len(frames)
    /\ pc \in {"done", "error", "timeout", "raised"}
          => Cardinality(TerminalPositions) = 1

\* C2: a request that takes the timeout outcome ends with the structured
\* timeout error frame as its only terminal frame, emits no done frame,
\* passes on none of the tokens that arrived after the deadline, and stores
\* no message.
C2_TimeoutOutcome ==
    pc = "timeout" =>
        /\ clock > TIMEOUT
        /\ Len(frames) >= 1
        /\ frames[Len(frames)] = ChatTimeoutFrame
        /\ \A k \in 1..(Len(frames) - 1) : frames[k].type = "token"
        /\ Len(frames) = n_yielded
        /\ TokenText = full_response
        /\ messages = <<>>

C2_Witness ==
    /\ endpoint = "chat"
    /\ pc = "timeout"
    /\ Len(frames) >= 2

\* C3 (as claimed): generation that is still running when 120 s have elapsed
\* is cut off, so a generator that finishes later than that can only belong
\* to a request that ended with the timeout error.
C3_BudgetEnforced ==
    gen_done_at > TIMEOUT => pc = "timeout"

\* C4: once a disconnect check of the web delivery loop has returned true,
\* the frames emitted are exactly the token frames sent before that check
\* (a multiple of the stride): no token, done or error frame follows.
C4_SilentAfterDisconnect ==
    pc = "disconnected" =>
        /\ idx % DISCONNECT_STRIDE = 0
        /\ Len(frames) = idx
        /\ \A k \in 1..Len(frames) : frames[k] = TokenFrame(<<formatted[k]>>)

C4_Witness ==
    /\ pc = "disconnected"
    /\ idx = DISCONNECT_STRIDE
    /\ Len(formatted) > idx

C6_NoRawExceptionText ==
    \A k \in 1..Len(frames) : ~Contains(RawExceptionText, frames[k].payload)

----------------------------------------------------------------------------
(* Comparison detector: services/comparison_service.py *)

Punctuation == {",", ".", ":", "?", "'", "(", ")", "[", "]", "#", "-", "BOOK",
                "ACUTE"}

\* \w: letters of any script, digits and the underscore
IsWordChar(c) == c \notin Whitespace /\ c \notin Punctuation

UpperOrDigit == UpperLetters \cup Digits

\* s has the literal lit at position pos
HasAt(s, pos, lit) ==
    /\ pos >= 1
    /\ pos + Len(lit) - 1 <= Len(s)
    /\ \A j \in 1..Len(lit) : s[pos + j - 1] = lit[j]

\* str.strip()
Strip(s) ==
    LET keep == {k \in 1..Len(s) : s[k] \notin Whitespace}
    IN  IF keep = {} THEN <<>> ELSE SubSeq(s, SetMin(keep), SetMax(keep))

\* re.sub(r'[^\w\s]', '', topic).strip()
NormalizeTopic(t) ==
    Strip(SelectSeq(t, LAMBDA c : IsWordChar(c) \/ c \in Whitespace))

\* t.replace(' ', '')
RemoveSpaces(t) == SelectSeq(t, LAMBDA c : c # "SP")

\* confidences are kept as integer percentages: 95 stands for 0.95

\* a Python value used as a condition: None and "" / [] are false
Truthy(v) == v # NoneValue /\ v # NoneList /\ v # <<>>

\* variant: the whole list instead of its first two entries
FirstTwo_All(topics) == topics

\* topics[:2]
FirstTwo(topics) == SubSeq(topics, 1, IF Len(topics) < 2 THEN Len(topics) ELSE 2)

Reverse(q) == [k \in 1..Len(q) |-> q[Len(q) + 1 - k]]

COMPARISON_KEYWORDS ==
    << <<"k_bi", "k_gyo">>, <<"k_cha", "k_i">>,
       <<"k_da", "k_reun", "k_jeom">>, <<"k_gong", "k_tong", "k_jeom">>,
       <<"k_cha", "k_byeol", "k_jeom">>,
       <<"v", "s">>, <<"V", "S">>, <<"V", ".", "S">>, <<"k_wa">>,
       <<"k_geu", "k_ri", "k_go">>,
       <<"k_bi", "k_gyo", "k_ha">>, <<"k_bi", "k_gyo", "k_hae">>,
       <<"k_cha", "k_i", "k_reul">>, <<"k_da", "k_reu">>,
       <<"k_gat", "k_eun">> >>

PRONOUN_KEYWORDS ==
    << <<"k_du", "k_gae">>, <<"k_dul">>, <<"k_yang", "k_jjok">>,
       <<"k_i", "SP", "k_du">>, <<"k_jeo", "SP", "k_du">>,
       <<"k_dul", "SP", "k_da">>,
       <<"k_yang", "k_jjok", "SP", "k_mo", "k_du">>,
       <<"k_i", "k_geot", "k_gwa", "SP", "k_jeo", "k_geot">>,
       <<"k_cheot", "k_beon", "k_jjae", "k_wa", "SP", "k_du", "k_beon",
         "k_jjae">>,
       <<"k_geu", "k_ri", "k_go">> >>

NoComparison ==
    [is_comparison |-> FALSE, topics |-> <<>>, confidence |-> 0,
     detection_method |-> "none"]

Comparison(topics, confidence, method) ==
    [is_comparison |-> TRUE, topics |-> topics, confidence |-> confidence,
     detection_method |-> method]

\* variant: the gate lets every query through
CheckComparisonIntent_Open(query) == TRUE

\* any(word in query.lower() for word in COMPARISON_KEYWORDS)
CheckComparisonIntent(query) ==
    \E k \in 1..Len(COMPARISON_KEYWORDS) :
        Contains(COMPARISON_KEYWORDS[k], Lower(query))

\* characters of the class [^\s,\.]
IsNameChar(c) == c \notin Whitespace /\ c \notin {",", "."}

\* (?:vs|VS|V\.S|versus) under re.IGNORECASE at position p: length of the
\* alternative that matches there, 0 if none does
VsConnectorLen(s, p) ==
    LET t == Lower(s)
    IN  IF HasAt(t, p, <<"v", "s">>) THEN 2
        ELSE IF HasAt(t, p, <<"v", ".", "s">>) THEN 3
        ELSE IF HasAt(t, p, <<"v", "e", "r", "s", "u", "s">>) THEN 6
        ELSE 0

NameSeparators == Whitespace \cup {",", "."}

\* start of group 2 when group 1 ends at j, 0 when the rest does not match
VsSecondStart(s, j) ==
    LET p == RunEnd(s, j + 1, Whitespace) + 1
        c == VsConnectorLen(s, p)
        g == RunEnd(s, p + c, Whitespace) + 1
    IN  IF c > 0 /\ g <= Len(s) /\ IsNameChar(s[g]) THEN g ELSE 0

\* the ends j of a group 1 = s[i..j] for which the whole pattern matches
VsFirstEnds(s, i) ==
    {j \in i..RunEndNot(s, i, NameSeparators) : VsSecondStart(s, j) # 0}

\* re.search(r'([^\s,\.]+?)\s*(?:vs|VS|V\.S|versus)\s*([^\s,\.]+)', query,
\*           re.IGNORECASE): leftmost start, shortest group 1, longest group 2
VsStarts(s) == {i \in 1..Len(s) : VsFirstEnds(s, i) # {}}

VsMatch(s) ==
    LET i == SetMin(VsStarts(s))
        j == SetMin(VsFirstEnds(s, i))
        g == VsSecondStart(s, j)
    IN  << SubSeq(s, i, j), SubSeq(s, g, RunEndNot(s, g, NameSeparators)) >>

\* characters of the class [A-Z0-9\s]
AndClass == UpperLetters \cup Digits \cup Whitespace

\* (?:과|와|그리고) at position p: its length, 0 if absent
AndConnectorLen(s, p) ==
    IF HasAt(s, p, <<"k_gwa">>) \/ HasAt(s, p, <<"k_wa">>) THEN 1
    ELSE IF HasAt(s, p, <<"k_geu", "k_ri", "k_go">>) THEN 3
    ELSE 0

\* start of group 2 for a match of the Korean pattern starting at i, else 0
AndSecondStart(s, i) ==
    IF s[i] \notin UpperLetters THEN 0
    ELSE LET p == RunEnd(s, i + 1, AndClass) + 1
             c == AndConnectorLen(s, p)
             g == RunEnd(s, p + c, Whitespace) + 1
         IN  IF c > 0 /\ g <= Len(s) /\ s[g] \in UpperLetters THEN g ELSE 0

\* re.search(r'([A-Z][A-Z0-9\s]*)\s*(?:과|와|그리고)\s*([A-Z][A-Z0-9\s]*)', q)
AndStarts(s) == {i \in 1..Len(s) : AndSecondStart(s, i) # 0}

AndMatch(s) ==
    LET i == SetMin(AndStarts(s))
        g == AndSecondStart(s, i)
    IN  << Strip(SubSeq(s, i, RunEnd(s, i + 1, AndClass))),
           Strip(SubSeq(s, g, RunEnd(s, g + 1, AndClass))) >>

ExtractVsPattern(query) ==
    LET vs_match == VsMatch(query)
        and_match == AndMatch(query)
    IN  IF VsStarts(query) # {}
        THEN Comparison(<<Strip(vs_match[1]), Strip(vs_match[2])>>,
                        95, "regex_vs")
        ELSE IF AndStarts(query) # {}
                /\ Len(and_match[1]) > 1 /\ Len(and_match[2]) > 1
        THEN Comparison(and_match, 90, "regex_and")
        ELSE NoComparison

\* end of the match of ACRONYM_PATTERN that starts at m
AcronymEnd(s, m) ==
    LET e1 == RunEnd(s, m + 1, UpperOrDigit)
        x == RunEnd(s, e1 + 1, Whitespace)
    IN  IF x >= e1 + 1 /\ x + 1 <= Len(s) /\ s[x + 1] \in UpperLetters
        THEN RunEnd(s, x + 2, UpperOrDigit) ELSE e1

\* re.findall(r'([A-Z][A-Z0-9]*(?:\s+[A-Z][A-Z0-9]*)?)', s)
RECURSIVE AcronymsFrom(_, _)
AcronymsFrom(s, i) ==
    LET M == {m \in i..Len(s) : s[m] \in UpperLetters}
    IN  IF M = {} THEN <<>>
        ELSE <<SubSeq(s, SetMin(M), AcronymEnd(s, SetMin(M)))>>
             \o AcronymsFrom(s, AcronymEnd(s, SetMin(M)) + 1)

FindAcronyms(s) == AcronymsFrom(s, 1)

\* for topic in found: ... topics.append(topic); if len(topics) >= 3: break
RECURSIVE AddFound(_, _, _)
AddFound(topics, found, k) ==
    IF k > Len(found) THEN topics
    ELSE LET normalized == NormalizeTopic(found[k])
             fresh == normalized # <<>>
                      /\ \A j \in 1..Len(topics) :
                            normalized # RemoveSpaces(topics[j])
         IN  IF fresh
             THEN IF Len(topics) + 1 >= 3 THEN Append(topics, found[k])
                  ELSE AddFound(Append(topics, found[k]), found, k + 1)
             ELSE AddFound(topics, found, k + 1)

\* for msg in reversed(conversation_context[-10:]): the messages are visited
\* from the most recent one
RECURSIVE AddFromMessages(_, _, _)
AddFromMessages(topics, msgs, k) ==
    IF k > Len(msgs) THEN topics
    ELSE AddFromMessages(AddFound(topics, FindAcronyms(msgs[k]), 1), msgs,
                         k + 1)

LastTen(q) == SubSeq(q, IF Len(q) > 10 THEN Len(q) - 9 ELSE 1, Len(q))

ExtractTopicsFromContext(query, history_text, conversation_context) ==
    LET fromContext ==
            IF Truthy(conversation_context)
            THEN AddFromMessages(<<>>, Reverse(LastTen(conversation_context)), 1)
            ELSE <<>>
    IN  IF Len(fromContext) < 2 /\ Truthy(history_text)
        THEN AddFound(fromContext, FindAcronyms(history_text), 1)
        ELSE fromContext

\* end of the match of \b[A-Z]{2,}(?:\s+[A-Z]{2,})?\b that starts at m,
\* 0 if there is none
HistoryAcronymEnd(s, m) ==
    LET e1 == RunEnd(s, m, UpperLetters)
        x == RunEnd(s, e1 + 1, Whitespace)
        e2 == RunEnd(s, x + 1, UpperLetters)
        boundaryAfter(e) == e = Len(s) \/ ~IsWordChar(s[e + 1])
    IN  IF ~(s[m] \in UpperLetters /\ (m = 1 \/ ~IsWordChar(s[m - 1]))
             /\ e1 - m + 1 >= 2)
        THEN 0
        ELSE IF x >= e1 + 1 /\ e2 - x >= 2 /\ boundaryAfter(e2) THEN e2
        ELSE IF boundaryAfter(e1) THEN e1
        ELSE 0

RECURSIVE HistoryAcronymsFrom(_, _)
HistoryAcronymsFrom(s, i) ==
    LET M == {m \in i..Len(s) : HistoryAcronymEnd(s, m) # 0}
    IN  IF M = {} THEN <<>>
        ELSE <<SubSeq(s, SetMin(M), HistoryAcronymEnd(s, SetMin(M)))>>
             \o HistoryAcronymsFrom(s, HistoryAcronymEnd(s, SetMin(M)) + 1)

\* for match in reversed(matches): keep the first three distinct ones
RECURSIVE RecentDistinct(_, _, _)
RecentDistinct(topics, matches, k) ==
    IF k > Len(matches) THEN topics
    ELSE IF NormalizeTopic(matches[k]) # <<>>
            /\ (\A j \in 1..Len(topics) :
                   NormalizeTopic(topics[j]) # NormalizeTopic(matches[k]))
            /\ Len(topics) < 3
         THEN RecentDistinct(Append(topics, matches[k]), matches, k + 1)
         ELSE RecentDistinct(topics, matches, k + 1)

ExtractTopicsFromHistory(history) ==
    IF ~Truthy(history) THEN <<>>
    ELSE Reverse(RecentDistinct(<<>>, Reverse(HistoryAcronymsFrom(history, 1)), 1))

\* one element of a comparison-structure pattern: a whitespace run \s* or an
\* alternation of literals
Ws == [ws |-> TRUE, alts |-> {}]
Alt(lits) == [ws |-> FALSE, alts |-> lits]

AndWords == {<<"k_gwa">>, <<"k_wa">>, <<"k_geu", "k_ri", "k_go">>}

COMPARISON_STRUCTURES ==
    { << Alt({<<"k_cheot">>, <<"c1">>, <<"1">>, <<"1", "k_beon", "k_jjae">>}),
         Ws, Alt(AndWords), Ws,
         Alt({<<"k_du">>, <<"c2">>, <<"2">>, <<"2", "k_beon", "k_jjae">>}) >>,
      << Alt({<<"k_i", "k_geot">>, <<"k_geu", "k_geot">>, <<"A">>}),
         Ws, Alt(AndWords), Ws,
         Alt({<<"k_jeo", "k_geot">>, <<"B">>}) >>,
      << Alt({<<"k_jeon", "k_ja">>, <<"k_hu", "k_ja">>, <<"k_ap">>,
              <<"k_dwi">>}),
         Ws, Alt(AndWords) >>,
      << Alt({<<"k_eo", "k_neu">>}), Ws, Alt({<<"k_geot", "k_i">>}), Ws,
         Alt({<<"k_da", "k_reu">>, <<"k_deo">>, <<"k_nat">>, <<"k_jot">>}) >>,
      << Alt({<<"k_mwo", "k_ga">>}), Ws,
         Alt({<<"k_da", "k_reu">>, <<"k_deo">>, <<"k_nat">>, <<"k_jot">>}) >> }

RECURSIVE MatchItems(_, _, _, _)
MatchItems(s, pos, pat, k) ==
    IF k > Len(pat) THEN TRUE
    ELSE IF pat[k].ws
         THEN \E q \in pos..(RunEnd(s, pos, Whitespace) + 1) :
                  MatchItems(s, q, pat, k + 1)
         ELSE \E lit \in pat[k].alts :
                  HasAt(s, pos, lit) /\ MatchItems(s, pos + Len(lit), pat, k + 1)

\* re.search(pattern, query) for one of the comparison structures
HasComparisonStructure(query) ==
    \E pat \in COMPARISON_STRUCTURES :
        \E pos \in 1..Len(query) : MatchItems(query, pos, pat, 1)

SemanticDetection(query, history) ==
    LET topics == ExtractTopicsFromHistory(history)
    IN  IF HasComparisonStructure(query) /\ Len(topics) >= 2
        THEN Comparison(FirstTwo(topics), 80, "semantic")
        ELSE NoComparison

\* for match in matches: distinct matches of at least two characters
RECURSIVE DistinctAcronyms(_, _, _)
DistinctAcronyms(topics, matches, k) ==
    IF k > Len(matches) THEN topics
    ELSE IF NormalizeTopic(matches[k]) # <<>>
            /\ (\A j \in 1..Len(topics) :
                   NormalizeTopic(topics[j]) # NormalizeTopic(matches[k]))
            /\ Len(NormalizeTopic(matches[k])) >= 2
         THEN DistinctAcronyms(Append(topics, matches[k]), matches, k + 1)
         ELSE DistinctAcronyms(topics, matches, k + 1)

ExtractAllAcronyms(query) == DistinctAcronyms(<<>>, FindAcronyms(query), 1)

HasPronoun(query) ==
    \E k \in 1..Len(PRONOUN_KEYWORDS) : Contains(PRONOUN_KEYWORDS[k], query)

DetectComparisonMode(query, history, conversation_context) ==
    LET vs_result == ExtractVsPattern(query)
        context_topics ==
            ExtractTopicsFromContext(query, history, conversation_context)
        semantic_result == SemanticDetection(query, history)
        acronyms == ExtractAllAcronyms(query)
    IN  IF ~CheckComparisonIntent(query) THEN NoComparison
        ELSE IF vs_result.topics # <<>> THEN vs_result
        ELSE IF HasPronoun(query) /\ Len(context_topics) >= 2
        THEN Comparison(FirstTwo(context_topics), 85, "history")
        ELSE IF semantic_result.is_comparison THEN semantic_result
        ELSE IF Len(acronyms) >= 2
        THEN Comparison(FirstTwo(acronyms), 60, "acronym")
        ELSE NoComparison


----------------------------------------------------------------------------
(* Specification of the comparison detector *)

MaxQueryPieces == 3
MaxContextMessages == 1

IMO_DCS == <<"I", "M", "O", "SP", "D", "C", "S">>
EU_MRV == <<"E", "U", "SP", "M", "R", "V">>
CII == <<"C", "I", "I">>

\* subject names as a user writes them
Names == {IMO_DCS, EU_MRV}

\* the explicit-pair connectors as a user writes them
VsSeparators ==
    { <<"SP", "v", "s", "SP">>, <<"SP", "V", ".", "S", "SP">> }

\* " 비교해줘"
CompareRequest == <<"SP", "k_bi", "k_gyo", "k_hae", "k_jwo">>

QueryPieces ==
    Names \cup VsSeparators \cup
    { <<"k_wa", "SP">>,
      CompareRequest,
      <<"k_du", "k_gae">>,
      <<"k_mwo", "k_ga", "SP", "k_deo">> }

RECURSIVE Flatten(_)
Flatten(ps) == IF ps = <<>> THEN <<>> ELSE Head(ps) \o Flatten(Tail(ps))

SeqsUpTo(S, n) == UNION {[1..k -> S] : k \in 0..n}

Queries == {Flatten(ps) : ps \in SeqsUpTo(QueryPieces, MaxQueryPieces)}

Histories ==
    { NoneValue, <<>>,
      IMO_DCS \o <<"k_wa", "SP">> \o EU_MRV \o <<",", "SP">> \o CII }

ContextMessages ==
    { IMO_DCS \o <<"k_wa", "SP">> \o EU_MRV \o <<",", "SP">> \o CII }

Contexts == {NoneList} \cup SeqsUpTo(ContextMessages, MaxContextMessages)

StreamIdle ==
    /\ endpoint = "none"
    /\ has_key = TRUE
    /\ pc = "idle"
    /\ clock = 0
    /\ gen = "idle"
    /\ n_chunks = 0
    /\ n_yielded = 0
    /\ gen_done_at = -1
    /\ full_response = <<>>
    /\ formatted = <<>>
    /\ idx = 0
    /\ frames = <<>>
    /\ messages = <<>>
    /\ disconnected = FALSE

InitDetect ==
    /\ LoadIdle
    /\ SyncIdle
    /\ RouteIdle
    /\ LoopIdle
    /\ StreamIdle
    /\ RagIdle
    /\ ChunkIdle
    /\ TeamsIdle
    /\ NormIdle
    /\ d_pc = "input"
    /\ d_query \in Queries \cup {NoneValue}
    /\ d_history \in Histories
    /\ d_context \in Contexts
    /\ d_result = NoComparison

\* detect_comparison_mode returns its result
DetectCall ==
    /\ d_pc = "input"
    /\ d_query # NoneValue
    /\ d_result' = DetectComparisonMode(d_query, d_history, d_context)
    /\ d_pc' = "done"
    /\ UNCHANGED <<d_query, d_history, d_context>>
    /\ UNCHANGED nonDetectVars

\* len(query) on None raises TypeError before anything is returned
DetectRaise ==
    /\ d_pc = "input"
    /\ d_query = NoneValue
    /\ d_pc' = "raised"
    /\ UNCHANGED <<d_query, d_history, d_context, d_result>>
    /\ UNCHANGED nonDetectVars

NextDetect ==
    \/ DetectCall
    \/ DetectRaise

SpecDetect == InitDetect /\ [][NextDetect]_vars

----------------------------------------------------------------------------
(* Properties of the comparison detector *)

C10_ExplicitPair ==
    d_pc = "done" =>
        \A a \in Names, b \in Names, sep \in VsSeparators :
            d_query \in {a \o sep \o b, a \o sep \o b \o CompareRequest} =>
                /\ d_result.is_comparison
                /\ d_result.topics = <<a, b>>
                /\ d_result.confidence >= 90
                /\ d_result.detection_method = "regex_vs"

\* the last two distinct entries of a list of mentions, oldest first
RECURSIVE LastDistinct(_, _, _)
LastDistinct(mentions, k, found) ==
    IF k = 0 \/ Len(found) = 2 THEN found
    ELSE IF \E j \in 1..Len(found) : found[j] = mentions[k]
         THEN LastDistinct(mentions, k - 1, found)
         ELSE LastDistinct(mentions, k - 1, <<mentions[k]>> \o found)

MostRecentTwo(mentions) == LastDistinct(mentions, Len(mentions), <<>>)

\* C11: when the topics are taken from the history (pronoun strategy and
\* structural strategy), they are the two most recently mentioned distinct
\* acronyms of the history, oldest first, and never the same acronym twice.
C11_MostRecentDistinctTopics ==
    (d_pc = "done" /\ d_result.detection_method \in {"history", "semantic"}) =>
        /\ d_result.topics[1] # d_result.topics[2]
        /\ d_result.detection_method = "semantic" =>
              d_result.topics = MostRecentTwo(HistoryAcronymsFrom(d_history, 1))
        /\ (d_result.detection_method = "history" /\ ~Truthy(d_context)) =>
              d_result.topics = MostRecentTwo(FindAcronyms(d_history))

----------------------------------------------------------------------------
(* Retrieval: services/langchain_rag_service.py, services/reranker_service.py *)

\* chunk.get('url') when the row has no url key (or holds None)
NoUrl == "<none>"

\* a url value that is empty after .strip()
BlankUrl == " "

\* a value used as a condition: None and "" are false
UrlTruthy(u) == u # NoUrl /\ u # ""

\* chunk.get('url') and chunk.get('url').strip()
UrlPresent(u) == UrlTruthy(u) /\ u # BlankUrl

\* metadata values: absent/empty, a dict, a JSON string holding a dict, or a
\* string that json.loads rejects
NoMetadata == [kind |-> "none", url |-> NoUrl]
DictMetadata(u) == [kind |-> "dict", url |-> u]
JsonMetadata(u) == [kind |-> "json", url |-> u]
BadJsonMetadata == [kind |-> "badjson", url |-> NoUrl]

\* tier 2: metadata of the chunk; a string is parsed first and an unparsable
\* string is left as it is (and then is not a dict)
ChunkMetadataUrl(metadata) ==
    IF metadata.kind \in {"dict", "json"} /\ UrlTruthy(metadata.url)
    THEN metadata.url ELSE ""

\* outcome of the documents-table lookup: "fail" when the query raises
LookupFailed == [kind |-> "fail", url |-> NoUrl]

\* tier 3: metadata of the parent document; any exception inside the try
\* (failed lookup, unparsable string) is swallowed
DocumentMetadataUrl(doc) ==
    IF doc.kind \in {"dict", "json"} /\ UrlTruthy(doc.url)
    THEN doc.url ELSE ""

\* _get_chunk_url: the url, and whether the documents table was queried
GetChunkUrl(chunk, docs) ==
    IF UrlPresent(chunk.url)
    THEN [url |-> chunk.url, fetched |-> FALSE]
    ELSE IF ChunkMetadataUrl(chunk.metadata) # ""
    THEN [url |-> ChunkMetadataUrl(chunk.metadata), fetched |-> FALSE]
    ELSE IF chunk.document_id # 0
    THEN [url |-> DocumentMetadataUrl(docs[chunk.document_id]),
          fetched |-> TRUE]
    ELSE [url |-> "", fetched |-> FALSE]

\* variant: the parent document is consulted before the chunk's metadata
AddUrl_ParentFirst(chunk, docs) ==
    IF UrlPresent(chunk.url) THEN chunk
    ELSE IF chunk.document_id # 0
            /\ DocumentMetadataUrl(docs[chunk.document_id]) # ""
    THEN [chunk EXCEPT !.url = DocumentMetadataUrl(docs[chunk.document_id])]
    ELSE IF UrlTruthy(GetChunkUrl(chunk, docs).url)
    THEN [chunk EXCEPT !.url = GetChunkUrl(chunk, docs).url]
    ELSE chunk

\* step 3 of search_hybrid for one chunk
AddUrl(chunk, docs) ==
    IF UrlPresent(chunk.url) THEN chunk
    ELSE IF UrlTruthy(GetChunkUrl(chunk, docs).url)
    THEN [chunk EXCEPT !.url = GetChunkUrl(chunk, docs).url]
    ELSE chunk

\* the rows for which step 3 of search_hybrid queries the documents table
Lookups(env) ==
    IF env.embed_ok /\ env.store_ok
    THEN {env.rows[k].id : k \in
            {j \in 1..Len(env.rows) :
                /\ ~UrlPresent(env.rows[j].url)
                /\ GetChunkUrl(env.rows[j], env.docs).fetched}}
    ELSE {}

\* chunks[:n]
Truncate(chunks, n) ==
    SubSeq(chunks, 1, IF Len(chunks) < n THEN Len(chunks) ELSE n)

\* sorted(chunks, key=rerank_score, reverse=True): a stable sort, equal
\* scores keep their original relative order
RECURSIVE SortedByScore(_)
SortedByScore(chunks) ==
    IF chunks = <<>> THEN <<>>
    ELSE LET best == SetMax({chunks[k].rerank_score : k \in 1..Len(chunks)})
             first == SetMin({k \in 1..Len(chunks) :
                                 chunks[k].rerank_score = best})
         IN  <<chunks[first]>>
             \o SortedByScore(SubSeq(chunks, 1, first - 1)
                              \o SubSeq(chunks, first + 1, Len(chunks)))

\* chunk['rerank_score'] = float(scores[i])
WithScores(chunks, scores) ==
    [k \in 1..Len(chunks) |-> [chunks[k] EXCEPT !.rerank_score = scores[k]]]

\* variant: the fallback hands the passages back in reverse order
RerankFallback_Reversed(chunks, top_k) == Truncate(Reverse(chunks), top_k)

\* except Exception: return chunks[:top_k]
RerankFallback(chunks, top_k) == Truncate(chunks, top_k)

\* variant: truncation before the sort
RerankOrder_TruncateFirst(chunks, top_k) ==
    SortedByScore(Truncate(chunks, top_k))

\* sorted(...)[:top_k]
RerankOrder(chunks, top_k) == Truncate(SortedByScore(chunks), top_k)

\* RerankerService.rerank; scoring is the outcome of model.predict: either
\* "fail" or the list of scores
Rerank(chunks, top_k, scoring) ==
    IF chunks = <<>> THEN <<>>
    ELSE IF scoring.ok
    THEN RerankOrder(WithScores(chunks, scoring.scores), top_k)
    ELSE RerankFallback(chunks, top_k)

\* SupabaseRetriever.k and RERANKER_CONFIG['top_k'] (30 and 5 in the
\* deployed configuration), scaled down together with the number of rows
K == 2
TOP_K == 2
MaxRows == 3

\* 'match_count': self.k * 2 if use_reranking else self.k
MatchCount(use_reranking) == IF use_reranking THEN K * 2 ELSE K

\* a chunk without 'rerank_score'
NoScore == -1

\* "관련 문서를 찾을 수 없습니다."
NotFoundContext == <<[kind |-> "not_found"]>>

\* f"검색 중 오류: {str(e)}"
ErrorContext(e) == <<[kind |-> "error", text |-> e]>>

\* one "[문서 i] ..." part of the context
ContextPart(i, chunk) ==
    [kind |-> "document",
     index |-> i,
     id |-> chunk.id,
     score_label |-> IF chunk.rerank_score # NoScore THEN "rerank" ELSE "score",
     score |-> IF chunk.rerank_score # NoScore THEN chunk.rerank_score
               ELSE chunk.score,
     url |-> IF UrlPresent(chunk.url) THEN chunk.url ELSE ""]

\* step 5 of search_hybrid: the parts are joined in list order
FormatContext(chunks) == [i \in 1..Len(chunks) |-> ContextPart(i, chunks[i])]

\* except Exception as e: return f"검색 중 오류: {str(e)}", []
SearchFailure(e) == [context |-> ErrorContext(e), chunks |-> <<>>]

\* search_hybrid(query, use_reranking) against one outcome of its
\* collaborators: env.embed_ok, env.store_ok (the calls raise when false),
\* env.rows (response.data), env.docs (the documents table) and env.scoring
\* (the rerank model)
SearchHybrid(query, use_reranking, env) ==
    IF ~env.embed_ok THEN SearchFailure("EmbeddingError")
    ELSE IF ~env.store_ok THEN SearchFailure("StoreError")
    ELSE IF env.rows = <<>>
    THEN [context |-> NotFoundContext, chunks |-> <<>>]
    ELSE LET chunks == [k \in 1..Len(env.rows) |-> AddUrl(env.rows[k], env.docs)]
             kept == IF use_reranking /\ Len(chunks) > 1
                     THEN Rerank(chunks, TOP_K, env.scoring)
                     ELSE chunks
         IN  [context |-> FormatContext(kept), chunks |-> kept]

\* f"{topic} 베슬링크"
TopicQuery(topic) == <<topic, "k_be", "k_seul", "k_ring", "k_keu">>

\* f"\n### 【{topic}】\n{context}"
TopicSection(topic, context) ==
    [kind |-> "section", topic |-> topic, context |-> context]

\* variant: passages already returned for an earlier topic are dropped
RECURSIVE ExtendChunks_Dedup(_, _)
ExtendChunks_Dedup(all_chunks, chunks) ==
    IF chunks = <<>> THEN all_chunks
    ELSE IF \E j \in 1..Len(all_chunks) : all_chunks[j].id = Head(chunks).id
         THEN ExtendChunks_Dedup(all_chunks, Tail(chunks))
         ELSE ExtendChunks_Dedup(Append(all_chunks, Head(chunks)), Tail(chunks))

\* all_chunks.extend(chunks)
ExtendChunks(all_chunks, chunks) == all_chunks \o chunks

\* the loop of search_multi_topic over topics[k..]; envs[k] is the outcome
\* of the collaborators during the k-th search
RECURSIVE MultiTopicFrom(_, _, _, _, _)
MultiTopicFrom(topics, use_reranking, envs, k, acc) ==
    IF k > Len(topics) THEN acc
    ELSE LET found == SearchHybrid(TopicQuery(topics[k]), use_reranking, envs[k])
         IN  MultiTopicFrom(topics, use_reranking, envs, k + 1,
                 [context |-> Append(acc.context,
                                     TopicSection(topics[k], found.context)),
                  chunks |-> ExtendChunks(acc.chunks, found.chunks)])

\* search_multi_topic(query, topics)
SearchMultiTopic(query, topics, use_reranking, envs) ==
    IF Len(topics) < 2 THEN SearchHybrid(query, use_reranking, envs[1])
    ELSE MultiTopicFrom(topics, use_reranking, envs, 1,
                        [context |-> <<>>, chunks |-> <<>>])

\* the four templates built in __init__: (system prompt, user template)
base_prompt_template ==
    [system |-> <<"VEDDY_SYSTEM_PROMPT">>,
     user |-> <<"USER_MESSAGE_TEMPLATE">>]
table_prompt_template ==
    [system |-> <<"VEDDY_SYSTEM_PROMPT", "TABLE_MODE_PROMPT">>,
     user |-> <<"TABLE_USER_MESSAGE_TEMPLATE">>]
comparison_prompt_template ==
    [system |-> <<"VEDDY_SYSTEM_PROMPT">>,
     user |-> <<"COMPARISON_CONTEXT_TEMPLATE", "NL", "NL",
                "COMPARISON_USER_TEMPLATE">>]
comparison_table_prompt_template ==
    [system |-> <<"VEDDY_SYSTEM_PROMPT", "TABLE_MODE_PROMPT">>,
     user |-> <<"COMPARISON_CONTEXT_TEMPLATE", "NL", "NL",
                "COMPARISON_USER_TEMPLATE">>]

\* variant: the table flag is ignored in comparison mode
SelectPromptTemplate_NoHybrid(table_mode, is_comparison, topics) ==
    IF is_comparison THEN comparison_prompt_template
    ELSE IF table_mode THEN table_prompt_template
    ELSE base_prompt_template

\* _select_prompt_template
SelectPromptTemplate(table_mode, is_comparison, topics) ==
    IF is_comparison /\ table_mode THEN comparison_table_prompt_template
    ELSE IF is_comparison THEN comparison_prompt_template
    ELSE IF table_mode THEN table_prompt_template
    ELSE base_prompt_template

----------------------------------------------------------------------------
(* Specification of the retrieval step *)

MaxTopics == 2

\* the shapes a row of hybrid_search_veddy can have, as far as its url goes
UrlShapes ==
    { [url |-> "own_url", metadata |-> NoMetadata, document_id |-> 1],
      [url |-> NoUrl, metadata |-> DictMetadata("meta_url"), document_id |-> 1],
      [url |-> "", metadata |-> JsonMetadata("meta_url"), document_id |-> 0],
      [url |-> BlankUrl, metadata |-> BadJsonMetadata, document_id |-> 1],
      [url |-> NoUrl, metadata |-> DictMetadata(""), document_id |-> 1],
      [url |-> NoUrl, metadata |-> NoMetadata, document_id |-> 0] }

\* the i-th row of the store's answer; the store lists rows by falling score
Row(i, shape) ==
    [id |-> i, url |-> shape.url, metadata |-> shape.metadata,
     document_id |-> shape.document_id, score |-> 10 - i,
     rerank_score |-> NoScore]

\* the answers of the store that have n rows
RowLists(n) == {[i \in 1..n |-> Row(i, f[i])] : f \in [1..n -> UrlShapes]}

\* what the lookup of the parent document can give
DocOutcomes ==
    { LookupFailed, NoMetadata, DictMetadata("parent_url"),
      JsonMetadata("parent_url"), BadJsonMetadata }

DocTables == [{1} -> DocOutcomes]

Scorings(n) ==
    { [ok |-> FALSE, scores |-> <<>>] } \cup
    { [ok |-> TRUE, scores |-> f] : f \in [1..n -> 1..2] }

SmallerOf(a, b) == IF a < b THEN a ELSE b

\* self.embeddings.embed_query raises
EmbeddingFails ==
    [embed_ok |-> FALSE, store_ok |-> TRUE, rows |-> <<>>,
     docs |-> [d \in {1} |-> NoMetadata],
     scoring |-> [ok |-> FALSE, scores |-> <<>>]]

\* the rpc('hybrid_search_veddy', ...).execute() call raises
StoreFails ==
    [embed_ok |-> TRUE, store_ok |-> FALSE, rows |-> <<>>,
     docs |-> [d \in {1} |-> NoMetadata],
     scoring |-> [ok |-> FALSE, scores |-> <<>>]]

\* response.data is empty
NothingFound ==
    [embed_ok |-> TRUE, store_ok |-> TRUE, rows |-> <<>>,
     docs |-> [d \in {1} |-> NoMetadata],
     scoring |-> [ok |-> FALSE, scores |-> <<>>]]

\* the store answers with rows, the documents table holds docs and the
\* rerank model behaves as scoring
StoreAnswers(rows, docs, scoring) ==
    [embed_ok |-> TRUE, store_ok |-> TRUE, rows |-> rows, docs |-> docs,
     scoring |-> scoring]

InitSearch ==
    /\ LoadIdle
    /\ SyncIdle
    /\ RouteIdle
    /\ LoopIdle
    /\ StreamIdle
    /\ DetectIdle
    /\ ChunkIdle
    /\ TeamsIdle
    /\ NormIdle
    /\ r_pc = "call"
    /\ r_table_mode = FALSE
    /\ r_reranking \in BOOLEAN
    /\ r_info = [is_comparison |-> FALSE, topics |-> <<>>]
    /\ r_envs = <<>>
    /\ r_queries = <<>>
    /\ r_found = [context |-> <<>>, chunks |-> <<>>]
    /\ r_lookups = <<>>
    /\ r_template = [system |-> <<>>, user |-> <<>>]

\* search_hybrid(query) under the outcome env of its collaborators
SearchReturns(env) ==
    /\ r_envs' = <<env>>
    /\ r_found' = SearchHybrid(<<"Q">>, r_reranking, env)
    /\ r_lookups' = <<Lookups(env)>>

\* one call of search_hybrid(query), under every outcome in which the store
\* honours match_count
SearchCall ==
    /\ r_pc = "call"
    /\ \/ \E env \in {EmbeddingFails, StoreFails} : SearchReturns(env)
       \/ \E n \in 0..SmallerOf(MaxRows, MatchCount(r_reranking)) :
             \E rows \in RowLists(n), docs \in DocTables,
                scoring \in Scorings(n) :
                   SearchReturns(StoreAnswers(rows, docs, scoring))
    /\ r_queries' = << <<"Q">> >>
    /\ r_pc' = "returned"
    /\ UNCHANGED <<r_table_mode, r_reranking, r_info, r_template>>
    /\ UNCHANGED nonRagVars

NextSearch == SearchCall

SpecSearch == InitSearch /\ [][NextSearch]_vars

----------------------------------------------------------------------------
(* Specification of retrieval and prompt selection inside
   process_query_streaming *)

TopicNames == {"IMO DCS", "EU MRV"}

TopicLists == SeqsUpTo(TopicNames, MaxTopics)

\* comparison_info as the caller passes it; None is replaced by the default
\* {"is_comparison": False, "topics": []}
\* request_body.comparison_info is an Optional[Dict]: the web endpoint hands
\* on whatever topics the client lists, here a comparison of three
ClientSuppliedInfo ==
    [is_comparison |-> TRUE, topics |-> <<"IMO DCS", "EU MRV", "CII">>]

ComparisonInfos ==
    {[is_comparison |-> c, topics |-> t] : c \in BOOLEAN, t \in TopicLists}
        \cup {ClientSuppliedInfo}

\* if is_comparison and topics and len(topics) >= 2
InComparisonMode(info) ==
    info.is_comparison /\ info.topics # <<>> /\ Len(info.topics) >= 2

OwnUrlShape == [url |-> "own_url", metadata |-> NoMetadata, document_id |-> 1]
ParentUrlShape == [url |-> NoUrl, metadata |-> NoMetadata, document_id |-> 1]

\* an answer of the store with n rows; every second row has no url of its own
RagRows(n) ==
    [i \in 1..n |-> Row(i, IF i % 2 = 1 THEN OwnUrlShape ELSE ParentUrlShape)]

\* the answers of the store: nothing, one row, ..., MaxRows rows
RagRowLists == {RagRows(n) : n \in 0..MaxRows}

\* the rerank model prefers later rows
RisingScores(n) == [ok |-> TRUE, scores |-> [i \in 1..n |-> SmallerOf(i, 2)]]

RagEnvs(match_count) ==
    { EmbeddingFails, StoreFails, NothingFound } \cup
    { [embed_ok |-> TRUE, store_ok |-> TRUE, rows |-> rows,
       docs |-> [d \in {1} |-> DictMetadata("parent_url")],
       scoring |-> scoring] :
         rows \in {r \in RagRowLists : Len(r) > 0 /\ Len(r) <= match_count},
         scoring \in {[ok |-> FALSE, scores |-> <<>>], RisingScores(MaxRows)} }

InitRag ==
    /\ LoadIdle
    /\ SyncIdle
    /\ RouteIdle
    /\ LoopIdle
    /\ StreamIdle
    /\ DetectIdle
    /\ ChunkIdle
    /\ TeamsIdle
    /\ NormIdle
    /\ r_pc = "start"
    /\ r_table_mode \in BOOLEAN
    /\ r_reranking \in BOOLEAN
    /\ r_info \in ComparisonInfos
    /\ r_envs = <<>>
    /\ r_queries = <<>>
    /\ r_found = [context |-> <<>>, chunks |-> <<>>]
    /\ r_lookups = <<>>
    /\ r_template = [system |-> <<>>, user |-> <<>>]

\* Step 1, comparison mode: self.retriever.search_multi_topic(query, topics)
RagSearchMultiTopic ==
    /\ r_pc = "start"
    /\ InComparisonMode(r_info)
    /\ \E envs \in [1..Len(r_info.topics) -> RagEnvs(MatchCount(r_reranking))] :
          /\ r_envs' = envs
          /\ r_lookups' = [k \in 1..Len(envs) |-> Lookups(envs[k])]
          /\ r_found' = SearchMultiTopic(<<"Q">>, r_info.topics, r_reranking,
                                         envs)
    /\ r_queries' = [k \in 1..Len(r_info.topics) |-> TopicQuery(r_info.topics[k])]
    /\ r_pc' = "searched"
    /\ UNCHANGED <<r_table_mode, r_reranking, r_info, r_template>>
    /\ UNCHANGED nonRagVars

\* Step 1, normal mode: self.retriever.search_hybrid(query)
RagSearchHybrid ==
    /\ r_pc = "start"
    /\ ~InComparisonMode(r_info)
    /\ \E env \in RagEnvs(MatchCount(r_reranking)) :
          /\ r_envs' = <<env>>
          /\ r_found' = SearchHybrid(<<"Q">>, r_reranking, env)
          /\ r_lookups' = <<Lookups(env)>>
    /\ r_queries' = << <<"Q">> >>
    /\ r_pc' = "searched"
    /\ UNCHANGED <<r_table_mode, r_reranking, r_info, r_template>>
    /\ UNCHANGED nonRagVars

\* Step 2: self._select_prompt_template(table_mode, is_in_comparison_mode,
\* topics if is_in_comparison_mode else [])
RagSelectPrompt ==
    /\ r_pc = "searched"
    /\ r_template' =
          SelectPromptTemplate(r_table_mode, InComparisonMode(r_info),
              IF InComparisonMode(r_info) THEN r_info.topics ELSE <<>>)
    /\ r_pc' = "prompted"
    /\ UNCHANGED <<r_table_mode, r_reranking, r_info, r_envs, r_queries,
                   r_found, r_lookups>>
    /\ UNCHANGED nonRagVars

\* Steps 3 and 4: the messages are formatted with the context and handed to
\* self.llm.stream
RagGenerate ==
    /\ r_pc = "prompted"
    /\ r_pc' = "generating"
    /\ UNCHANGED <<r_table_mode, r_reranking, r_info, r_envs, r_queries,
                   r_found, r_lookups, r_template>>
    /\ UNCHANGED nonRagVars

NextRag ==
    \/ RagSearchMultiTopic
    \/ RagSearchHybrid
    \/ RagSelectPrompt
    \/ RagGenerate

SpecRag == InitRag /\ [][NextRag]_vars

----------------------------------------------------------------------------
(* Properties of retrieval and prompt selection *)

AllTemplates ==
    {SelectPromptTemplate(t, c, <<>>) : t \in BOOLEAN, c \in BOOLEAN}

\* C12: _select_prompt_template depends on (table_mode, is_comparison) only:
\* the four combinations give four different templates, the topics never
\* change the template, and the call changes nothing but the template it
\* returns.
C12_TemplateBySwitchesOnly ==
    /\ Cardinality(AllTemplates) = 4
    /\ \A t \in BOOLEAN, c \in BOOLEAN, topics \in TopicLists :
          SelectPromptTemplate(t, c, topics) = SelectPromptTemplate(t, c, <<>>)
    /\ r_pc \in {"prompted", "generating"} =>
          r_template = SelectPromptTemplate(r_table_mode,
                                            InComparisonMode(r_info), <<>>)

\* the hybrid template was selected for a comparison of two topics
C12_Witness ==
    /\ r_pc = "prompted"
    /\ r_table_mode
    /\ InComparisonMode(r_info)
    /\ r_template = comparison_table_prompt_template

----------------------------------------------------------------------------
(* Token chunking: services/token_chunk_service.py *)

MaxTokens == 6
MaxChunkTokens == 3

\* passes of the loop that are followed; a run that is still in the loop
\* after this many passes is not followed further
MaxIterations == MaxTokens + 2

\* a token decodes either to visible text or to whitespace only
TokenKinds == {"word", "space"}

\* not text or not text.strip(): a text is blank when no token is visible
IsBlank(tokens) == \A k \in 1..Len(tokens) : tokens[k] = "space"

\* a Python slice index: negative counts from the end, then clamped to 0..n
SliceIndex(i, n) ==
    IF i < 0 THEN (IF i + n < 0 THEN 0 ELSE i + n)
    ELSE IF i > n THEN n ELSE i

\* tokens[start:end]
PySlice(tokens, start, end) ==
    SubSeq(tokens, SliceIndex(start, Len(tokens)) + 1,
           SliceIndex(end, Len(tokens)))

\* end = min(start + chunk_tokens, len(tokens))
WindowEnd(start, chunk_tokens, n) == SmallerOf(start + chunk_tokens, n)

\* if chunk_token_len >= min_chunk_tokens and chunk_text.strip()
Keeps(chunk_token_ids, min_chunk_tokens) ==
    Len(chunk_token_ids) >= min_chunk_tokens /\ ~IsBlank(chunk_token_ids)

\* variant: the next window starts where this one ended
NextStart_NoOverlap(end, overlap_tokens) == end

\* start = end - overlap_tokens
NextStart(end, overlap_tokens) == end - overlap_tokens

\* chunk_text is entered: a blank text returns [] at once, any other text is
\* tokenized and the loop is reached
ChunkCall ==
    /\ c_pc = "call"
    /\ c_pc' = IF IsBlank(c_tokens) THEN "returned" ELSE "loop"
    /\ UNCHANGED <<c_tokens, c_config, c_start, c_windows, c_chunks, c_iter>>
    /\ UNCHANGED nonChunkVars

\* one pass of the while loop
ChunkStep ==
    /\ c_pc = "loop"
    /\ c_start < Len(c_tokens)
    /\ c_iter < MaxIterations
    /\ LET end == WindowEnd(c_start, c_config.chunk_tokens, Len(c_tokens))
           chunk_token_ids == PySlice(c_tokens, c_start, end)
       IN  /\ c_windows' = Append(c_windows, <<c_start, end>>)
           /\ c_chunks' = IF Keeps(chunk_token_ids, c_config.min_chunk_tokens)
                          THEN Append(c_chunks, chunk_token_ids)
                          ELSE c_chunks
           /\ c_start' = NextStart(end, c_config.overlap_tokens)
           /\ c_pc' = IF end >= Len(c_tokens) THEN "returned" ELSE "loop"
    /\ c_iter' = c_iter + 1
    /\ UNCHANGED <<c_tokens, c_config>>
    /\ UNCHANGED nonChunkVars

\* the while condition is false: return chunks
ChunkExit ==
    /\ c_pc = "loop"
    /\ c_start >= Len(c_tokens)
    /\ c_pc' = "returned"
    /\ UNCHANGED <<c_tokens, c_config, c_start, c_windows, c_chunks, c_iter>>
    /\ UNCHANGED nonChunkVars

TokenLists == SeqsUpTo(TokenKinds, MaxTokens)

ChunkConfigs ==
    [chunk_tokens : 1..MaxChunkTokens,
     overlap_tokens : -1..MaxChunkTokens + 1,
     min_chunk_tokens : 0..MaxChunkTokens]

InitChunk ==
    /\ LoadIdle
    /\ SyncIdle
    /\ RouteIdle
    /\ LoopIdle
    /\ StreamIdle
    /\ DetectIdle
    /\ RagIdle
    /\ TeamsIdle
    /\ NormIdle
    /\ c_pc = "call"
    /\ c_tokens \in TokenLists
    /\ c_config \in ChunkConfigs
    /\ c_start = 0
    /\ c_windows = <<>>
    /\ c_chunks = <<>>
    /\ c_iter = 0

NextChunk ==
    \/ ChunkCall
    \/ ChunkStep
    \/ ChunkExit

SpecChunk == InitChunk /\ [][NextChunk]_vars

----------------------------------------------------------------------------
(* Properties of token chunking *)

\* C13: with overlap_tokens >= chunk_tokens and a non-blank text, chunk_text
\* fails fast: it neither enters its loop nor returns chunks.
C13_InvalidStrideFailsFast ==
    (c_config.overlap_tokens >= c_config.chunk_tokens /\ ~IsBlank(c_tokens)) =>
        c_pc \notin {"loop", "returned"}

\* the windows [i*s, min(i*s + chunk_tokens, n)) for i = 0, 1, ... up to and
\* including the first one whose end reaches n
RECURSIVE WindowsFrom(_, _, _, _)
WindowsFrom(i, s, chunk_tokens, n) ==
    IF SmallerOf(i * s + chunk_tokens, n) >= n
    THEN << <<i * s, SmallerOf(i * s + chunk_tokens, n)>> >>
    ELSE << <<i * s, i * s + chunk_tokens>> >>
         \o WindowsFrom(i + 1, s, chunk_tokens, n)

ValidConfig ==
    /\ 0 <= c_config.overlap_tokens
    /\ c_config.overlap_tokens < c_config.chunk_tokens

\* the windows of the list that hold enough tokens and visible text
RECURSIVE KeptWindows(_, _, _)
KeptWindows(windows, tokens, min_chunk_tokens) ==
    IF windows = <<>> THEN <<>>
    ELSE LET w == SubSeq(tokens, Head(windows)[1] + 1, Head(windows)[2])
             rest == KeptWindows(Tail(windows), tokens, min_chunk_tokens)
         IN  IF Len(w) >= min_chunk_tokens /\ ~IsBlank(w)
             THEN <<w>> \o rest ELSE rest

\* C14: with 0 <= overlap_tokens < chunk_tokens, chunk_text ends after at most
\* one pass per token, having considered exactly the windows at stride
\* s = chunk_tokens - overlap_tokens up to the first one that reaches the end
\* of the document; it returns, in order, those holding at least
\* min_chunk_tokens tokens and visible text, so each chunk has between
\* min_chunk_tokens and chunk_tokens tokens.
C14_WindowsAtStride ==
    (ValidConfig /\ ~IsBlank(c_tokens)) =>
        /\ c_iter <= Len(c_tokens)
        /\ c_pc = "loop" => c_start < Len(c_tokens)
        /\ c_pc = "returned" =>
              /\ c_windows =
                    WindowsFrom(0, c_config.chunk_tokens - c_config.overlap_tokens,
                                c_config.chunk_tokens, Len(c_tokens))
              /\ c_chunks = KeptWindows(c_windows, c_tokens,
                                        c_config.min_chunk_tokens)
              /\ \A k \in 1..Len(c_chunks) :
                    /\ Len(c_chunks[k]) >= c_config.min_chunk_tokens
                    /\ Len(c_chunks[k]) <= c_config.chunk_tokens

\* three overlapping windows, the last one too short to be kept
C14_Witness ==
    /\ c_pc = "returned"
    /\ ValidConfig
    /\ c_config.overlap_tokens > 0
    /\ Len(c_windows) >= 3
    /\ Len(c_chunks) = Len(c_windows) - 1
    /\ c_windows[Len(c_windows)][2] - c_windows[Len(c_windows)][1]
          < c_config.min_chunk_tokens

----------------------------------------------------------------------------
(* Properties of the hybrid search *)

\* the search came back with the rows of the store
SearchSucceeded ==
    /\ r_pc = "returned"
    /\ r_envs[1].embed_ok
    /\ r_envs[1].store_ok
    /\ r_envs[1].rows # <<>>

\* the url held by a metadata value, "" when it holds none; a serialized
\* value counts when it parses
UrlInside(metadata) ==
    IF metadata.kind \in {"dict", "json"} /\ metadata.url \notin {NoUrl, ""}
    THEN metadata.url ELSE ""

\* C15: a passage that the store returns without a url gets the first
\* non-empty of: the url inside its own metadata, the url inside the metadata
\* of its parent document; the parent is looked up only when the passage's
\* own metadata holds no url; the passage stays without url only when neither
\* holds one, and a failed lookup does not fail the search.
C15_UrlTiers ==
    SearchSucceeded =>
        /\ r_found.chunks # <<>>
        /\ \A k \in 1..Len(r_found.chunks) :
              LET chunk == r_found.chunks[k]
                  row == r_envs[1].rows[chunk.id]
                  own == UrlInside(row.metadata)
                  parent == IF row.document_id # 0
                            THEN UrlInside(r_envs[1].docs[row.document_id])
                            ELSE ""
              IN  IF UrlPresent(row.url)
                  THEN chunk.url = row.url /\ chunk.id \notin r_lookups[1]
                  ELSE /\ own # "" => chunk.url = own
                       /\ (own = "" /\ parent # "") => chunk.url = parent
                       /\ (own = "" /\ parent = "") => ~UrlPresent(chunk.url)
                       /\ chunk.id \in r_lookups[1] =>
                             own = "" /\ row.document_id # 0

\* a returned passage took its url from the parent document while another
\* one, whose lookup failed, stayed without url
C15_Witness ==
    /\ SearchSucceeded
    /\ r_envs[1].docs[1] = LookupFailed
    /\ r_lookups[1] # {}
    /\ \E k \in 1..Len(r_found.chunks) :
          /\ ~UrlPresent(r_found.chunks[k].url)
          /\ r_found.chunks[k].id \in r_lookups[1]
    /\ \E k \in 1..Len(r_found.chunks) :
          r_found.chunks[k].url = "meta_url"

\* the ids of the passages a search returned
ReturnedIds == {r_found.chunks[k].id : k \in 1..Len(r_found.chunks)}

\* C16: with reranking enabled, more than one candidate and a rerank model
\* that scores them, search_hybrid returns the top_k candidates by rerank
\* score: as many as there are up to top_k, each one a candidate carrying its
\* own score, in non-increasing score order, and no dropped candidate scores
\* higher than a kept one.  Otherwise it returns the candidates in the order
\* of the store, at most k of them.
C16_TopByRerankScore ==
    SearchSucceeded =>
        LET rows == r_envs[1].rows
            scoring == r_envs[1].scoring
            chunks == r_found.chunks
        IN  IF r_reranking /\ Len(rows) > 1
            THEN scoring.ok =>
                   /\ Len(chunks) = SmallerOf(Len(rows), TOP_K)
                   /\ Cardinality(ReturnedIds) = Len(chunks)
                   /\ \A k \in 1..Len(chunks) :
                         /\ chunks[k].id \in 1..Len(rows)
                         /\ chunks[k].score = rows[chunks[k].id].score
                         /\ chunks[k].metadata = rows[chunks[k].id].metadata
                         /\ chunks[k].rerank_score = scoring.scores[chunks[k].id]
                   /\ \A k \in 1..(Len(chunks) - 1) :
                         chunks[k].rerank_score >= chunks[k + 1].rerank_score
                   /\ \A j \in (1..Len(rows)) \ ReturnedIds :
                         \A k \in 1..Len(chunks) :
                            scoring.scores[j] <= chunks[k].rerank_score
            ELSE /\ Len(chunks) = Len(rows)
                 /\ Len(chunks) <= K
                 /\ \A k \in 1..Len(chunks) :
                       /\ chunks[k].id = k
                       /\ chunks[k].score = rows[k].score
                       /\ chunks[k].rerank_score = NoScore

\* the rerank model preferred the last of more than top_k candidates: it
\* comes first and the lowest-scored candidate is dropped
C16_Witness ==
    /\ SearchSucceeded
    /\ r_reranking
    /\ r_envs[1].scoring.ok
    /\ Len(r_envs[1].rows) > TOP_K
    /\ r_found.chunks[1].id = Len(r_envs[1].rows)
    /\ 1 \in ReturnedIds
    /\ 2 \notin ReturnedIds

----------------------------------------------------------------------------
(* Properties of the retrieval step inside process_query_streaming *)

\* one single-topic search has returned inside process_query_streaming
SingleSearchDone ==
    /\ r_pc \in {"searched", "prompted", "generating"}
    /\ ~InComparisonMode(r_info)

\* the rerank model was called and raised
RerankModelFailed(use_reranking, env) ==
    /\ env.embed_ok
    /\ env.store_ok
    /\ use_reranking
    /\ Len(env.rows) > 1
    /\ ~env.scoring.ok

\* C17: when the rerank model fails while scoring, the search returns the
\* first top_k passages in the order of the store, without rerank scores,
\* and the request goes on to prompt selection and generation.
C17_RerankFailureFallsBack ==
    (SingleSearchDone /\ RerankModelFailed(r_reranking, r_envs[1])) =>
        LET rows == r_envs[1].rows
            chunks == r_found.chunks
        IN  /\ Len(chunks) = SmallerOf(Len(rows), TOP_K)
            /\ \A k \in 1..Len(chunks) :
                  /\ chunks[k].id = rows[k].id
                  /\ chunks[k].score = rows[k].score
                  /\ chunks[k].rerank_score = NoScore
            /\ r_found.context = FormatContext(chunks)
            /\ r_pc = "searched" => ENABLED RagSelectPrompt
            /\ r_pc = "prompted" => ENABLED RagGenerate

\* generation was reached with the first top_k of three passages after the
\* rerank model failed
C17_Witness ==
    /\ r_pc = "generating"
    /\ ~InComparisonMode(r_info)
    /\ RerankModelFailed(r_reranking, r_envs[1])
    /\ Len(r_envs[1].rows) > TOP_K
    /\ Len(r_found.chunks) = TOP_K
    /\ r_found.chunks[1].id = 1

\* the embedding call or the store call of a search raised
RetrievalFailed(env) == ~env.embed_ok \/ ~env.store_ok

\* C18: when the query embedding or the store call fails, the search returns
\* the context of an empty search result ("no relevant documents found")
\* with an empty passage list, and the request goes on to generation.
C18_FailureReadsAsNotFound ==
    (SingleSearchDone /\ RetrievalFailed(r_envs[1])) =>
        /\ r_found.chunks = <<>>
        /\ r_found.context = NotFoundContext
        /\ r_pc = "searched" => ENABLED RagSelectPrompt
        /\ r_pc = "prompted" => ENABLED RagGenerate

\* a comparison of two or more topics has been searched
MultiSearchDone ==
    /\ r_pc \in {"searched", "prompted", "generating"}
    /\ InComparisonMode(r_info)

\* the passages of the first n searches, one list after the other
RECURSIVE PassagesOfFirst(_, _)
PassagesOfFirst(founds, n) ==
    IF n = 0 THEN <<>>
    ELSE PassagesOfFirst(founds, n - 1) \o founds[n].chunks

\* C19: search_multi_topic makes one search per topic, in topic order, with
\* the topic followed by the fixed qualifier as query; the context has one
\* labelled section per topic in that order, holding the context of that
\* topic's own search; and the passages are those of each topic's own
\* search, one list after the other, whatever the other searches return.
C19_PerTopicResultsConcatenated ==
    MultiSearchDone =>
        LET topics == r_info.topics
            own == [k \in 1..Len(topics) |->
                       SearchHybrid(TopicQuery(topics[k]), r_reranking,
                                    r_envs[k])]
        IN  /\ Len(r_queries) = Len(topics)
            /\ Len(r_envs) = Len(topics)
            /\ \A k \in 1..Len(topics) :
                  /\ r_queries[k] = <<topics[k]>> \o <<"k_be", "k_seul", "k_ring", "k_keu">>
                  /\ r_found.context[k].kind = "section"
                  /\ r_found.context[k].topic = topics[k]
                  /\ r_found.context[k].context = own[k].context
            /\ Len(r_found.context) = Len(topics)
            /\ r_found.chunks = PassagesOfFirst(own, Len(topics))

\* two topics whose searches return the same passage of the store: it is
\* listed once per topic, and the list is longer than one search can return
C19_Witness ==
    /\ MultiSearchDone
    /\ Len(r_found.chunks) > SmallerOf(TOP_K, K)
    /\ \E i, j \in 1..Len(r_found.chunks) :
          i < j /\ r_found.chunks[i].id = r_found.chunks[j].id

----------------------------------------------------------------------------
(* The Teams channel: TeamsService and handle_teams_message *)

MaxAnswerLen == 2

\* an activity without a streaminfo entity
NoStreamInfo ==
    [streamType |-> "<none>", streamId |-> "<none>", streamSequence |-> 0]

\* send_typing_indicator: Activity(type=ActivityTypes.typing, ...)
TypingActivity ==
    [type |-> "typing", text |-> <<>>, streaminfo |-> NoStreamInfo]

\* send_reply: Activity(type=ActivityTypes.message, text=message, ...)
ReplyActivity(message) ==
    [type |-> "message", text |-> message, streaminfo |-> NoStreamInfo]

\* the payload of stream_message_start; it carries no streamId
StreamStartPayload(message) ==
    [type |-> "typing", text |-> message,
     streaminfo |-> [streamType |-> "informative", streamId |-> "<none>",
                     streamSequence |-> 1]]

\* the value stream_message_start returns: the id of the response when the
\* status is 201, None otherwise
StreamStartResult(status_code, id) ==
    IF status_code = 201 THEN id ELSE "<none>"

\* the payload of stream_message_informative
StreamInformativePayload(stream_id, message, sequence) ==
    [type |-> "typing", text |-> message,
     streaminfo |-> [streamType |-> "informative", streamId |-> stream_id,
                     streamSequence |-> sequence]]

\* the payload of stream_message_response
StreamResponsePayload(stream_id, message, sequence) ==
    [type |-> "typing", text |-> message,
     streaminfo |-> [streamType |-> "streaming", streamId |-> stream_id,
                     streamSequence |-> sequence]]

\* the payload of stream_message_final; it carries no streamSequence
StreamFinalPayload(stream_id, message) ==
    [type |-> "message", text |-> message,
     streaminfo |-> [streamType |-> "final", streamId |-> stream_id,
                     streamSequence |-> 0]]

\* table_keywords = ["테이블", "표", "데이터", "통계"]
TABLE_KEYWORDS ==
    { <<"k_te", "k_i", "k_beul">>, <<"k_pyo">>, <<"k_de", "k_i", "k_teo">>,
      <<"k_tong", "k_gye">> }

\* any(keyword in user_message for keyword in table_keywords)
TableMode(user_message) == \E w \in TABLE_KEYWORDS : Contains(w, user_message)

\* not user_message or not user_message.strip()
BlankMessage(text) == text = NoneValue \/ text = <<>> \/ Strip(text) = <<>>

\* the message of the outer handler for an exception whose lower-cased text
\* mentions the given words
ErrorMessage(mentions) ==
    <<IF "timeout" \in mentions THEN "timeout_msg"
      ELSE IF "graph" \in mentions THEN "graph_msg"
      ELSE IF "supabase" \in mentions \/ "database" \in mentions
      THEN "database_msg"
      ELSE "generic_msg",
      "NL", "retry_msg">>

\* the message sent when the RAG call exceeds 120 s
TimeoutMessage == <<"rag_timeout_msg", "NL", "retry_msg">>

\* the incoming activities
Activities ==
    { [type |-> "malformed", text |-> NoneValue],
      [type |-> "conversationUpdate", text |-> NoneValue] } \cup
    { [type |-> "message", text |-> t] :
        t \in { NoneValue, <<"SP">>, <<"q">>, <<"k_pyo", "SP", "q">> } }

\* rag_result.get("ai_response", ""): "" or an answer of up to MaxAnswerLen
\* pieces
Answers == SeqsUpTo({"a"}, MaxAnswerLen)

\* which of the words the handler looks for an exception text mentions
ExceptionTexts ==
    { {}, {"timeout"}, {"graph"}, {"supabase"}, {"database"} }

InitTeams ==
    /\ LoadIdle
    /\ SyncIdle
    /\ RouteIdle
    /\ LoopIdle
    /\ StreamIdle
    /\ DetectIdle
    /\ RagIdle
    /\ ChunkIdle
    /\ NormIdle
    /\ t_pc = "received"
    /\ t_activity \in Activities
    /\ t_table_mode = FALSE
    /\ t_history = 0
    /\ t_answer = <<>>
    /\ t_attempt = 0
    /\ t_inserted = 0
    /\ t_error = [raised |-> FALSE, mentions |-> {}]
    /\ t_status = "none"
    /\ t_sent = <<>>

\* request.json() / Activity.deserialize raises: activity is still None, so
\* the outer handler sends nothing and answers 500
TeamsMalformed ==
    /\ t_pc = "received"
    /\ t_activity.type = "malformed"
    /\ t_error' = [raised |-> TRUE, mentions |-> {}]
    /\ t_status' = "http_500"
    /\ t_pc' = "returned"
    /\ UNCHANGED <<t_activity, t_table_mode, t_history, t_answer, t_attempt,
                   t_inserted, t_sent>>
    /\ UNCHANGED nonTeamsVars

\* activity.type != message, or no text: return {"status": "ok"}
TeamsIgnore ==
    /\ t_pc = "received"
    /\ t_activity.type # "malformed"
    /\ t_activity.type # "message" \/ BlankMessage(t_activity.text)
    /\ t_status' = "ok"
    /\ t_pc' = "returned"
    /\ UNCHANGED <<t_activity, t_table_mode, t_history, t_answer, t_attempt,
                   t_inserted, t_error, t_sent>>
    /\ UNCHANGED nonTeamsVars

\* table mode, the Graph lookup (its failure is only logged) and
\* user_service.get_or_create_user
TeamsIdentifyUser ==
    /\ t_pc = "received"
    /\ t_activity.type = "message"
    /\ ~BlankMessage(t_activity.text)
    /\ t_table_mode' = TableMode(t_activity.text)
    /\ t_pc' = "identified"
    /\ UNCHANGED <<t_activity, t_history, t_answer, t_attempt, t_inserted,
                   t_error, t_status, t_sent>>
    /\ UNCHANGED nonTeamsVars

\* await teams_service.send_typing_indicator(activity); a failure is logged
\* and ignored
TeamsTypingIndicator ==
    /\ t_pc = "identified"
    /\ \E delivered \in BOOLEAN :
          t_sent' = IF delivered THEN Append(t_sent, TypingActivity)
                    ELSE t_sent
    /\ t_pc' = "typing"
    /\ UNCHANGED <<t_activity, t_table_mode, t_history, t_answer, t_attempt,
                   t_inserted, t_error, t_status>>
    /\ UNCHANGED nonTeamsVars

\* Step 1 and 2: the conversation and its history are loaded
TeamsLoadContext ==
    /\ t_pc = "typing"
    /\ t_history' \in {0, 2}
    /\ t_pc' = "context"
    /\ UNCHANGED <<t_activity, t_table_mode, t_answer, t_attempt, t_inserted,
                   t_error, t_status, t_sent>>
    /\ UNCHANGED nonTeamsVars

\* Step 3: process_query returns within 120 s
TeamsRagAnswer ==
    /\ t_pc = "context"
    /\ t_answer' \in Answers
    /\ t_pc' = "answered"
    /\ UNCHANGED <<t_activity, t_table_mode, t_history, t_attempt, t_inserted,
                   t_error, t_status, t_sent>>
    /\ UNCHANGED nonTeamsVars

\* except asyncio.TimeoutError: the timeout message is sent with send_reply
\* and {"status": "timeout"} is returned
TeamsRagTimeout ==
    /\ t_pc = "context"
    /\ \/ /\ t_sent' = Append(t_sent, ReplyActivity(TimeoutMessage))
          /\ t_status' = "timeout"
          /\ t_pc' = "returned"
          /\ UNCHANGED t_error
       \/ \* send_reply raises and the outer handler takes over
          /\ \E e \in ExceptionTexts :
                t_error' = [raised |-> TRUE, mentions |-> e]
          /\ t_pc' = "failed"
          /\ UNCHANGED <<t_sent, t_status>>
    /\ UNCHANGED <<t_activity, t_table_mode, t_history, t_answer, t_attempt,
                   t_inserted>>
    /\ UNCHANGED nonTeamsVars

\* one pass of "for attempt in range(2)": the insert and, for the first
\* message of a conversation, the title update; any exception is caught and
\* the first one leads to a second pass
TeamsSaveAttempt ==
    /\ t_pc = "answered"
    /\ t_answer # <<>>
    /\ t_attempt < 2
    /\ \E outcome \in {"saved", "insert_fails"}
                      \cup (IF t_history = 0 THEN {"title_fails"} ELSE {}) :
          /\ t_inserted' = IF outcome = "insert_fails" THEN t_inserted
                           ELSE t_inserted + 1
          /\ t_attempt' = IF outcome = "saved" THEN t_attempt
                          ELSE t_attempt + 1
          /\ t_pc' = IF outcome = "saved" \/ t_attempt + 1 = 2 THEN "saved"
                     ELSE "answered"
    /\ UNCHANGED <<t_activity, t_table_mode, t_history, t_answer, t_error,
                   t_status, t_sent>>
    /\ UNCHANGED nonTeamsVars

\* if answer: success = await teams_service.send_reply(activity, answer)
TeamsReply ==
    /\ t_pc = "saved"
    /\ t_sent' = Append(t_sent, ReplyActivity(t_answer))
    /\ t_status' = "success"
    /\ t_pc' = "returned"
    /\ UNCHANGED <<t_activity, t_table_mode, t_history, t_answer, t_attempt,
                   t_inserted, t_error>>
    /\ UNCHANGED nonTeamsVars

\* no answer: return {"status": "no_response"}
TeamsNoResponse ==
    /\ t_pc = "answered"
    /\ t_answer = <<>>
    /\ t_status' = "no_response"
    /\ t_pc' = "returned"
    /\ UNCHANGED <<t_activity, t_table_mode, t_history, t_answer, t_attempt,
                   t_inserted, t_error, t_sent>>
    /\ UNCHANGED nonTeamsVars

\* a step that can raise does: get_or_create_user, the conversation service,
\* process_query, or send_reply; the outer "except Exception" catches it
TeamsRaise ==
    /\ \/ t_pc = "received" /\ t_activity.type = "message"
                            /\ ~BlankMessage(t_activity.text)
       \/ t_pc \in {"typing", "context", "saved"}
    /\ \E e \in ExceptionTexts : t_error' = [raised |-> TRUE, mentions |-> e]
    /\ t_pc' = "failed"
    /\ UNCHANGED <<t_activity, t_table_mode, t_history, t_answer, t_attempt,
                   t_inserted, t_status, t_sent>>
    /\ UNCHANGED nonTeamsVars

\* the outer handler: the error message is sent with send_reply (a failure
\* of that send is only logged) and HTTP 500 is raised
TeamsErrorReply ==
    /\ t_pc = "failed"
    /\ \E delivered \in BOOLEAN :
          t_sent' = IF delivered
                    THEN Append(t_sent, ReplyActivity(ErrorMessage(t_error.mentions)))
                    ELSE t_sent
    /\ t_status' = "http_500"
    /\ t_pc' = "returned"
    /\ UNCHANGED <<t_activity, t_table_mode, t_history, t_answer, t_attempt,
                   t_inserted, t_error>>
    /\ UNCHANGED nonTeamsVars

NextTeams ==
    \/ TeamsMalformed
    \/ TeamsIgnore
    \/ TeamsIdentifyUser
    \/ TeamsTypingIndicator
    \/ TeamsLoadContext
    \/ TeamsRagAnswer
    \/ TeamsRagTimeout
    \/ TeamsSaveAttempt
    \/ TeamsReply
    \/ TeamsNoResponse
    \/ TeamsRaise
    \/ TeamsErrorReply

SpecTeams == InitTeams /\ [][NextTeams]_vars

----------------------------------------------------------------------------
(* Properties of the Teams channel *)

\* the stream ids the channel can allocate
StreamIds == {"stream-1", "stream-2"}

\* the activities sent to the channel that carry a streaminfo entity
StreamFrames == SelectSeq(t_sent, LAMBDA f : f.streaminfo # NoStreamInfo)

\* fs is the life of one stream for the answer text: a start frame, then
\* informative frames, then at least one streaming frame, then one final
\* frame with the whole text, all but the first under one stream id
IsStreamLifecycle(fs, text) ==
    /\ Len(fs) >= 3
    /\ \E message \in {fs[1].text} : fs[1] = StreamStartPayload(message)
    /\ \E stream_id \in StreamIds :
          /\ fs[Len(fs)] = StreamFinalPayload(stream_id, text)
          /\ \E last_informative \in 1..(Len(fs) - 2) :
                /\ \A i \in 2..last_informative :
                      fs[i] = StreamInformativePayload(stream_id, fs[i].text,
                                  fs[i].streaminfo.streamSequence)
                /\ \A i \in (last_informative + 1)..(Len(fs) - 1) :
                      fs[i] = StreamResponsePayload(stream_id, fs[i].text,
                                  fs[i].streaminfo.streamSequence)

\* C20: once an answer has been delivered over the Teams channel, the frames
\* sent for it are one stream-start frame, then zero or more informative
\* frames, then one or more streaming frames, then exactly one final frame
\* carrying the complete answer, and nothing after the final frame.
C20_StreamLifecycle ==
    (t_pc = "returned" /\ t_status = "success") =>
        IsStreamLifecycle(StreamFrames, t_answer)

----------------------------------------------------------------------------
(* Text normalization: LangChainRAGService._normalize_response and
   ConfluenceService.normalize_text *)

MaxTextLen == 6

\* text.replace('\r\n', '\n')
RECURSIVE ReplaceCrLf(_)
ReplaceCrLf(s) ==
    IF s = <<>> THEN <<>>
    ELSE IF Len(s) >= 2 /\ s[1] = "CR" /\ s[2] = "NL"
    THEN <<"NL">> \o ReplaceCrLf(SubSeq(s, 3, Len(s)))
    ELSE <<s[1]>> \o ReplaceCrLf(Tail(s))

\* text.replace('\r', '\n')
ReplaceCr(s) == [k \in 1..Len(s) |-> IF s[k] = "CR" THEN "NL" ELSE s[k]]

\* re.sub(r'\n{3,}', '\n\n', text)
RECURSIVE CollapseNewlines(_)
CollapseNewlines(s) ==
    IF s = <<>> THEN <<>>
    ELSE IF s[1] = "NL"
    THEN LET end == RunEnd(s, 1, {"NL"})
         IN  (IF end >= 3 THEN <<"NL", "NL">> ELSE SubSeq(s, 1, end))
             \o CollapseNewlines(SubSeq(s, end + 1, Len(s)))
    ELSE <<s[1]>> \o CollapseNewlines(Tail(s))

\* text.split('\n')
RECURSIVE SplitLines(_)
SplitLines(s) ==
    LET breaks == {k \in 1..Len(s) : s[k] = "NL"}
    IN  IF breaks = {} THEN <<s>>
        ELSE <<SubSeq(s, 1, SetMin(breaks) - 1)>>
             \o SplitLines(SubSeq(s, SetMin(breaks) + 1, Len(s)))

\* line.rstrip()
RStrip(line) ==
    LET keep == {k \in 1..Len(line) : line[k] \notin {"SP", "NL", "CR"}}
    IN  IF keep = {} THEN <<>> ELSE SubSeq(line, 1, SetMax(keep))

\* re.sub(r' +', ' ', line) and re.sub(r'  +', ' ', line): every run of
\* spaces becomes one space
RECURSIVE CollapseSpaces(_)
CollapseSpaces(line) ==
    IF line = <<>> THEN <<>>
    ELSE IF line[1] = "SP"
    THEN <<"SP">> \o CollapseSpaces(SubSeq(line, RunEnd(line, 1, {"SP"}) + 1,
                                           Len(line)))
    ELSE <<line[1]>> \o CollapseSpaces(Tail(line))

\* step 4: each line is right-stripped and its space runs collapsed
CleanLines(s) ==
    LET lines == SplitLines(s)
    IN  [k \in 1..Len(lines) |-> CollapseSpaces(RStrip(lines[k]))]

\* '\n'.join(lines)
RECURSIVE JoinLines(_)
JoinLines(lines) ==
    IF lines = <<>> THEN <<>>
    ELSE IF Len(lines) = 1 THEN lines[1]
    ELSE lines[1] \o <<"NL">> \o JoinLines(Tail(lines))

\* _normalize_response(response)
NormalizeResponse(response) ==
    Strip(JoinLines(CleanLines(CollapseNewlines(ReplaceCr(ReplaceCrLf(
        NFC(response)))))))

\* ConfluenceService.normalize_text(text): the same five steps
NormalizeText(text) ==
    Strip(JoinLines(CleanLines(CollapseNewlines(ReplaceCr(ReplaceCrLf(
        NFC(text)))))))

NormalizeWith(fn, text) ==
    IF fn = "_normalize_response" THEN NormalizeResponse(text)
    ELSE NormalizeText(text)

TextChars == {"a", "SP", "NL", "CR"}

Texts == UNION {[1..n -> TextChars] : n \in 0..MaxTextLen}

InitNorm ==
    /\ LoadIdle
    /\ SyncIdle
    /\ RouteIdle
    /\ LoopIdle
    /\ StreamIdle
    /\ DetectIdle
    /\ RagIdle
    /\ ChunkIdle
    /\ TeamsIdle
    /\ n_pc = "input"
    /\ n_fn \in {"_normalize_response", "normalize_text"}
    /\ n_text \in Texts
    /\ n_once = <<>>
    /\ n_twice = <<>>

\* the function is applied to the input text
NormalizeCall ==
    /\ n_pc = "input"
    /\ n_once' = NormalizeWith(n_fn, n_text)
    /\ n_pc' = "once"
    /\ UNCHANGED <<n_fn, n_text, n_twice>>
    /\ UNCHANGED nonNormVars

\* the function is applied to its own result
NormalizeAgain ==
    /\ n_pc = "once"
    /\ n_twice' = NormalizeWith(n_fn, n_once)
    /\ n_pc' = "twice"
    /\ UNCHANGED <<n_fn, n_text, n_once>>
    /\ UNCHANGED nonNormVars

NextNorm ==
    \/ NormalizeCall
    \/ NormalizeAgain

SpecNorm == InitNorm /\ [][NextNorm]_vars

\* C21: normalizing an already normalized text changes nothing, for both
\* functions and for every text, lines of spaces included.
C21_NormalizeIdempotent ==
    n_pc = "twice" => n_twice = n_once

----------------------------------------------------------------------------
(* Requests on the event loop of one worker: where a request's task gives
   the loop back while process_query_streaming runs *)

MaxRequests == 2

Requests == 1..MaxRequests

\* the external calls of one request, in the order process_query_streaming
\* makes them
ExternalCalls ==
    <<"embed_query", "hybrid_search", "document_lookup", "rerank",
      "llm_stream">>

Finished == Len(ExternalCalls) + 1

InitLoop ==
    /\ LoadIdle
    /\ SyncIdle
    /\ RouteIdle
    /\ StreamIdle
    /\ DetectIdle
    /\ RagIdle
    /\ ChunkIdle
    /\ TeamsIdle
    /\ NormIdle
    /\ w_endpoint \in [Requests -> {"web", "chat"}]
    /\ w_holder = 0
    /\ w_pos = [t \in Requests |-> 1]
    /\ w_waiting = [t \in Requests |-> FALSE]
    /\ w_tokens = [t \in Requests |-> 0]

\* the loop is free and resumes the task of a request that has not finished
LoopResume(t) ==
    /\ w_holder = 0
    /\ w_pos[t] # Finished
    /\ w_holder' = t
    /\ UNCHANGED <<w_endpoint, w_pos, w_waiting, w_tokens>>
    /\ UNCHANGED nonLoopVars

\* the running task makes its next external call: a plain call of a
\* synchronous client (embed_query, rpc(...).execute(), model.predict, the
\* next() of llm.stream), made without await, so the task keeps the loop
ExternalCall(t) ==
    /\ w_holder = t
    /\ ~w_waiting[t]
    /\ w_pos[t] # Finished
    /\ w_waiting' = [w_waiting EXCEPT ![t] = TRUE]
    /\ UNCHANGED <<w_endpoint, w_holder, w_pos, w_tokens>>
    /\ UNCHANGED nonLoopVars

\* an external call before the LLM stream returns and the task goes on
ExternalReturn(t) ==
    /\ w_waiting[t]
    /\ w_pos[t] < Len(ExternalCalls)
    /\ w_waiting' = [w_waiting EXCEPT ![t] = FALSE]
    /\ w_pos' = [w_pos EXCEPT ![t] = @ + 1]
    /\ UNCHANGED <<w_endpoint, w_holder, w_tokens>>
    /\ UNCHANGED nonLoopVars

\* the LLM stream delivers a token: rag_with_timeout appends it and goes
\* on; process_chat yields it and awaits asyncio.sleep(0), which gives the
\* loop back
TokenArrives(t) ==
    /\ w_waiting[t]
    /\ w_pos[t] = Len(ExternalCalls)
    /\ w_tokens[t] < MaxChunks
    /\ w_waiting' = [w_waiting EXCEPT ![t] = FALSE]
    /\ w_tokens' = [w_tokens EXCEPT ![t] = @ + 1]
    /\ w_holder' = IF w_endpoint[t] = "chat" THEN 0 ELSE w_holder
    /\ UNCHANGED <<w_endpoint, w_pos>>
    /\ UNCHANGED nonLoopVars

\* the LLM stream ends: the generator is exhausted and the task reaches its
\* next await
StreamEnds(t) ==
    /\ w_waiting[t]
    /\ w_pos[t] = Len(ExternalCalls)
    /\ w_waiting' = [w_waiting EXCEPT ![t] = FALSE]
    /\ w_pos' = [w_pos EXCEPT ![t] = Finished]
    /\ w_holder' = 0
    /\ UNCHANGED <<w_endpoint, w_tokens>>
    /\ UNCHANGED nonLoopVars

NextLoop ==
    \E t \in Requests :
        \/ LoopResume(t)
        \/ ExternalCall(t)
        \/ ExternalReturn(t)
        \/ TokenArrives(t)
        \/ StreamEnds(t)

SpecLoop == InitLoop /\ [][NextLoop]_vars

\* C22: a request that is waiting on an external call has given the event
\* loop back, so the loop can resume the task of another request that has
\* not finished.
C22_WaitIsSuspensionPoint ==
    \A t \in Requests, u \in Requests :
        (t # u /\ w_waiting[t] /\ w_pos[u] # Finished) => ENABLED LoopResume(u)

----------------------------------------------------------------------------
(* The order of the detection strategies *)

\* the topics each strategy yields for the detector's input, in priority
\* order: explicit pair, pronoun + history, structure + history, acronyms of
\* the query
StrategyYields ==
    << ExtractVsPattern(d_query).topics,
       IF HasPronoun(d_query)
       THEN ExtractTopicsFromContext(d_query, d_history, d_context)
       ELSE <<>>,
       SemanticDetection(d_query, d_history).topics,
       ExtractAllAcronyms(d_query) >>

\* the detection methods the strategies report, in the same order
StrategyMethods ==
    << {"regex_vs", "regex_and"}, {"history"}, {"semantic"}, {"acronym"} >>

\* the query contains one of the comparison keywords
HasComparisonKeyword ==
    \E k \in 1..Len(COMPARISON_KEYWORDS) :
        Contains(COMPARISON_KEYWORDS[k], Lower(d_query))

----------------------------------------------------------------------------
(* Failure of the generator on the web endpoint *)

\* process_query_streaming failed during this request: the accumulator holds
\* the text its handler yields
GeneratorFailed == Contains(ErrorToken(RawExceptionText), full_response)

\* C24: when process_query_streaming fails (the LLM stream, the prompt
\* formatting or the retrieval dispatch raises) on a web request, no done
\* frame is emitted, nothing is stored in the messages table, and the
\* request, once over without a disconnect, has emitted an error frame.
C24_GeneratorFailureEndsInError ==
    (endpoint = "web" /\ GeneratorFailed) =>
        /\ \A k \in 1..Len(frames) : frames[k].type # "done"
        /\ messages = <<>>
        /\ pc \in {"done", "error", "timeout", "raised"} =>
              \E k \in 1..Len(frames) : frames[k].type = "error"

----------------------------------------------------------------------------
(* The number of searches of a comparison request *)

\* C25: the multi-topic path is taken only when comparison_info lists
\* exactly two topics, and it then issues exactly two searches.
C25_ComparisonMakesTwoSearches ==
    MultiSearchDone =>
        /\ Len(r_info.topics) = 2
        /\ Len(r_queries) = 2

----------------------------------------------------------------------------
(* The web endpoint up to retrieval: routers/chat_router.py *)

MaxRoutePieces == 3

LowerLetters == {LowerAscii(c) : c \in UpperLetters}

\* comparison_keywords = ["비교", "차이", "다른점", "공통점", "vs", "VS"]
ROUTER_KEYWORDS ==
    << <<"k_bi", "k_gyo">>, <<"k_cha", "k_i">>,
       <<"k_da", "k_reun", "k_jeom">>, <<"k_gong", "k_tong", "k_jeom">>,
       <<"v", "s">>, <<"V", "S">> >>

\* pronouns = ["두개", "둘", "양쪽", "이 두", "저 두"]
ROUTER_PRONOUNS ==
    << <<"k_du", "k_gae">>, <<"k_dul">>, <<"k_yang", "k_jjok">>,
       <<"k_i", "SP", "k_du">>, <<"k_jeo", "SP", "k_du">> >>

RouterInfo(is_comparison, topics) ==
    [is_comparison |-> is_comparison, topics |-> topics]

\* the characters outside the class [^\s,]
RouterSeparators == Whitespace \cup {","}

\* (?:vs|VS|와|vs) under re.IGNORECASE at position p: length of the
\* alternative that matches there, 0 if none does
RouterConnectorLen(s, p) ==
    IF HasAt(Lower(s), p, <<"v", "s">>) THEN 2
    ELSE IF HasAt(s, p, <<"k_wa">>) THEN 1
    ELSE 0

\* start of group 2 when group 1 ends at j, 0 when the rest does not match
RouterSecondStart(s, j) ==
    LET p == RunEnd(s, j + 1, Whitespace) + 1
        c == RouterConnectorLen(s, p)
        g == RunEnd(s, p + c, Whitespace) + 1
    IN  IF c > 0 /\ g <= Len(s) /\ s[g] \notin RouterSeparators THEN g ELSE 0

RouterFirstEnds(s, i) ==
    {j \in i..RunEndNot(s, i, RouterSeparators) : RouterSecondStart(s, j) # 0}

RouterStarts(s) == {i \in 1..Len(s) : RouterFirstEnds(s, i) # {}}

\* re.search(r'([^\s,]+?)\s*(?:vs|VS|와|vs)\s*([^\s,]+)', query,
\*           re.IGNORECASE).groups(): leftmost start, shortest group 1,
\* longest group 2
RouterVsMatch(s) ==
    LET i == SetMin(RouterStarts(s))
        j == SetMin(RouterFirstEnds(s, i))
        g == RouterSecondStart(s, j)
    IN  << SubSeq(s, i, j), SubSeq(s, g, RunEndNot(s, g, RouterSeparators)) >>

\* query.split()
RECURSIVE SplitWords(_, _)
SplitWords(s, i) ==
    LET starts == {k \in i..Len(s) : s[k] \notin Whitespace}
    IN  IF starts = {} THEN <<>>
        ELSE LET b == SetMin(starts)
                 e == RunEndNot(s, b, Whitespace)
             IN  <<SubSeq(s, b, e)>> \o SplitWords(s, e + 1)

\* str.isupper(): at least one cased character and no lowercase one
IsUpper(w) ==
    /\ \E k \in 1..Len(w) : w[k] \in UpperLetters
    /\ \A k \in 1..Len(w) : w[k] \notin LowerLetters

\* [w for w in words if len(w) > 1 and w.isupper()
\*    and w not in [",", "와", "의", "는"]]
RouterUpperWords(query) ==
    SelectSeq(SplitWords(query, 1),
              LAMBDA w : Len(w) > 1 /\ IsUpper(w)
                         /\ w \notin {<<",">>, <<"k_wa">>, <<"k_ui">>,
                                      <<"k_neun">>})

\* detect_comparison_mode(query, history) of the router
RouterDetectComparisonMode(query, history) ==
    LET vsmatch == RouterVsMatch(query)
        fromHistory == ExtractTopicsFromHistory(history)
        words == RouterUpperWords(query)
    IN  IF ~\E k \in 1..Len(ROUTER_KEYWORDS) :
                Contains(ROUTER_KEYWORDS[k], query)
        THEN RouterInfo(FALSE, <<>>)
        ELSE IF RouterStarts(query) # {}
        THEN RouterInfo(TRUE, <<Strip(vsmatch[1]), Strip(vsmatch[2])>>)
        ELSE IF (\E k \in 1..Len(ROUTER_PRONOUNS) :
                     Contains(ROUTER_PRONOUNS[k], query))
                /\ history # <<>> /\ Len(fromHistory) >= 2
        THEN RouterInfo(TRUE, FirstTwo(fromHistory))
        ELSE IF Len(words) >= 2 THEN RouterInfo(TRUE, FirstTwo(words))
        ELSE RouterInfo(FALSE, <<>>)

\* s[:n]
Take(s, n) == SubSeq(s, 1, IF Len(s) < n THEN Len(s) ELSE n)

\* the history text built from the rows of messages, oldest first:
\* "Q: {q[:100]}" and "A: {a[:150]}..." for every row with both texts,
\* joined by blank lines
RECURSIVE HistoryParts(_)
HistoryParts(rows) ==
    IF rows = <<>> THEN <<>>
    ELSE LET q == Take(Head(rows).user_query, 100)
             a == Take(Head(rows).ai_response, 150)
         IN  (IF q # <<>> /\ a # <<>>
              THEN << <<"Q", ":", "SP">> \o q,
                      <<"A", ":", "SP">> \o a \o <<".", ".", ".">> >>
              ELSE <<>>) \o HistoryParts(Tail(rows))

RECURSIVE JoinParts(_)
JoinParts(parts) ==
    IF parts = <<>> THEN <<>>
    ELSE IF Len(parts) = 1 THEN parts[1]
    ELSE parts[1] \o <<"NL", "NL">> \o JoinParts(Tail(parts))

LoadedHistory(rows) == JoinParts(HistoryParts(rows))

\* " 차이를 ": the rest of the question "두개 차이를 비교해줘"
DifferenceOf == <<"SP", "k_cha", "k_i", "k_reul">>

RoutePieces ==
    { IMO_DCS, EU_MRV, <<"SP", "v", "s", "SP">>, <<"k_du", "k_gae">>,
      DifferenceOf, CompareRequest }

RouteQueries == {Flatten(ps) : ps \in SeqsUpTo(RoutePieces, MaxRoutePieces)}

\* the rows of messages of the user: none, or one exchange about two
\* regulations
StoredExchanges ==
    { <<>>,
      << [user_query |-> IMO_DCS \o <<"?">>,
          ai_response |-> IMO_DCS \o <<"k_wa", "SP">> \o EU_MRV] >> }

\* request_body.history
RequestHistories == { <<>>, EU_MRV \o <<",", "SP">> \o CII }

RouteSupplied ==
    { <<>>, <<ClientSuppliedInfo>>, <<RouterInfo(FALSE, <<>>)>>,
      <<RouterInfo(TRUE, <<"IMO DCS", "EU MRV">>)>> }

\* one search of the retriever: the hybrid_search_veddy RPC, then n lookups
\* of parent documents, all through the client the retriever was built with
RetrieverClient == "service_role"

SearchCalls(n) ==
    <<[kind |-> "hybrid_search", via |-> RetrieverClient]>>
        \o [k \in 1..n |-> [kind |-> "parent_lookup", via |-> RetrieverClient]]

RECURSIVE AllSearchCalls(_)
AllSearchCalls(ns) ==
    IF ns = <<>> THEN <<>>
    ELSE SearchCalls(Head(ns)) \o AllSearchCalls(Tail(ns))

\* the number of searches process_query_streaming makes for comparison_info
Searches(info) ==
    IF InComparisonMode(info) THEN Len(info.topics) ELSE 1

InitRoute ==
    /\ LoadIdle
    /\ SyncIdle
    /\ StreamIdle
    /\ DetectIdle
    /\ RagIdle
    /\ ChunkIdle
    /\ TeamsIdle
    /\ NormIdle
    /\ LoopIdle
    /\ h_pc = "start"
    /\ h_query \in RouteQueries
    /\ h_history = <<>>
    /\ h_supplied \in RouteSupplied
    /\ h_info = <<>>
    /\ h_passed = "none"
    /\ h_calls = <<>>

\* chat_stream, phase 1: the user's client is opened with the access token;
\* history_text is the request's history or, when that is empty, the text
\* built from the user's last messages ("" when the query fails)
RouteLoadHistory ==
    /\ h_pc = "start"
    /\ h_passed' = "user"
    /\ \E given \in RequestHistories, rows \in StoredExchanges,
          load_ok \in BOOLEAN :
          h_history' = IF given # <<>> THEN given
                       ELSE IF load_ok THEN LoadedHistory(rows)
                       ELSE <<>>
    /\ h_pc' = "history"
    /\ UNCHANGED <<h_query, h_supplied, h_info, h_calls>>
    /\ UNCHANGED nonRouteVars

\* phase 2, comparison_info is None: detect_comparison_mode(request_body.query)
RouteDetect ==
    /\ h_pc = "history"
    /\ h_supplied = <<>>
    /\ h_info' = RouterDetectComparisonMode(h_query, <<>>)
    /\ h_pc' = "routed"
    /\ UNCHANGED <<h_query, h_history, h_supplied, h_passed, h_calls>>
    /\ UNCHANGED nonRouteVars

\* phase 2, comparison_info given by the client: used as it is
RouteManual ==
    /\ h_pc = "history"
    /\ h_supplied # <<>>
    /\ h_info' = h_supplied[1]
    /\ h_pc' = "routed"
    /\ UNCHANGED <<h_query, h_history, h_supplied, h_passed, h_calls>>
    /\ UNCHANGED nonRouteVars

\* phase 3: process_query_streaming(..., supabase_client=user_supabase,
\* history=history_text, comparison_info=comparison_info) searches through
\* self.retriever
RouteRetrieve ==
    /\ h_pc = "routed"
    /\ \E ns \in [1..Searches(h_info) -> 0..1] :
          h_calls' = AllSearchCalls(ns)
    /\ h_pc' = "retrieved"
    /\ UNCHANGED <<h_query, h_history, h_supplied, h_info, h_passed>>
    /\ UNCHANGED nonRouteVars

\* process_query_streaming called with its defaults: no client and
\* comparison_info None, replaced by {"is_comparison": False, "topics": []}
RouteDirectRetrieve ==
    /\ h_pc = "start"
    /\ h_info' = RouterInfo(FALSE, <<>>)
    /\ \E n \in 0..1 : h_calls' = SearchCalls(n)
    /\ h_pc' = "retrieved"
    /\ UNCHANGED <<h_query, h_history, h_supplied, h_passed>>
    /\ UNCHANGED nonRouteVars

NextRoute ==
    \/ RouteLoadHistory
    \/ RouteDetect
    \/ RouteManual
    \/ RouteRetrieve
    \/ RouteDirectRetrieve

SpecRoute == InitRoute /\ [][NextRoute]_vars

----------------------------------------------------------------------------
(* Properties of the web endpoint up to retrieval *)

\* "두개 차이를 비교해줘"
PronounQuery == <<"k_du", "k_gae">> \o DifferenceOf \o CompareRequest

\* C26: on the web endpoint with no comparison_info in the request, the
\* comparison is detected from the query together with the loaded history,
\* and the request is routed accordingly: one search per detected topic in
\* comparison mode.
C26_DetectionSeesLoadedHistory ==
    (h_passed = "user" /\ h_supplied = <<>>
        /\ h_pc \in {"routed", "retrieved"}) =>
        /\ h_info = RouterDetectComparisonMode(h_query, h_history)
        /\ h_pc = "retrieved" =>
              Len(SelectSeq(h_calls, LAMBDA c : c.kind = "hybrid_search"))
                  = Searches(RouterDetectComparisonMode(h_query, h_history))

\* the client process_query_streaming selects:
\* supabase_client if supabase_client else supabase_service
SelectedClient == IF h_passed # "none" THEN h_passed ELSE "service_role"

\* C30: the hybrid search and the parent-document lookups of a request go
\* through the client passed to process_query_streaming, and through the
\* shared service-role client only when none was passed.
C30_RetrievalUsesPassedClient ==
    h_pc = "retrieved" =>
        \A k \in 1..Len(h_calls) : h_calls[k].via = SelectedClient

----------------------------------------------------------------------------
(* process_chat consumed by process_chat_non_streaming:
   services/unified_chat_service.py *)

\* chunk.content of the chunks of self.llm.stream
SyncChunks ==
    { <<>>, <<"a">>, <<"e">>, <<"ACUTE">>, <<"e", "ACUTE">>,
      <<"SP", "a">>, <<"a", "SP">> }

\* if token.startswith(" "): the token is taken for a frame and left out
\* (a frame of type done also ends the loop); else: full_response += token
SyncCollect(response, token) ==
    IF token # <<>> /\ token[1] = "SP" THEN response ELSE response \o token

InitSync ==
    /\ LoadIdle
    /\ StreamIdle
    /\ DetectIdle
    /\ RagIdle
    /\ ChunkIdle
    /\ TeamsIdle
    /\ NormIdle
    /\ LoopIdle
    /\ RouteIdle
    /\ g_pc = "stream"
    /\ g_chunks \in SeqsUpTo(SyncChunks, MaxChunks)
    /\ g_raw = <<>>
    /\ g_text = <<>>
    /\ g_yielded = <<>>
    /\ g_stored = <<>>
    /\ g_response = <<>>

\* a chunk with content: process_query_streaming yields its NFC form,
\* process_chat adds it to full_response and yields it, and
\* process_chat_non_streaming collects it
SyncToken ==
    /\ g_pc = "stream"
    /\ g_chunks # <<>>
    /\ GenYields(Head(g_chunks))
    /\ g_chunks' = Tail(g_chunks)
    /\ g_raw' = Append(g_raw, Head(g_chunks))
    /\ g_text' = g_text \o GenToken(Head(g_chunks))
    /\ g_yielded' = Append(g_yielded, GenToken(Head(g_chunks)))
    /\ g_response' = SyncCollect(g_response, GenToken(Head(g_chunks)))
    /\ UNCHANGED <<g_pc, g_stored>>
    /\ UNCHANGED nonSyncVars

\* a chunk without content is passed over inside process_query_streaming
SyncEmptyChunk ==
    /\ g_pc = "stream"
    /\ g_chunks # <<>>
    /\ ~GenYields(Head(g_chunks))
    /\ g_chunks' = Tail(g_chunks)
    /\ g_raw' = Append(g_raw, Head(g_chunks))
    /\ UNCHANGED <<g_pc, g_text, g_yielded, g_stored, g_response>>
    /\ UNCHANGED nonSyncVars

\* the LLM stream raises: process_query_streaming yields its error text as
\* a last token and ends
SyncGeneratorError ==
    /\ g_pc = "stream"
    /\ g_chunks # <<>>
    /\ g_chunks' = <<>>
    /\ g_text' = g_text \o ErrorToken(RawExceptionText)
    /\ g_yielded' = Append(g_yielded, ErrorToken(RawExceptionText))
    /\ g_response' = SyncCollect(g_response, ErrorToken(RawExceptionText))
    /\ g_pc' = "save"
    /\ UNCHANGED <<g_raw, g_stored>>
    /\ UNCHANGED nonSyncVars

\* more than 120 seconds have passed when a token arrives: process_chat
\* yields an error frame and returns; the frame starts with a space and is
\* left out by process_chat_non_streaming, whose loop ends
SyncTimeout ==
    /\ g_pc = "stream"
    /\ g_chunks # <<>>
    /\ GenYields(Head(g_chunks))
    /\ g_chunks' = Tail(g_chunks)
    /\ g_raw' = Append(g_raw, Head(g_chunks))
    /\ g_pc' = "timeout"
    /\ UNCHANGED <<g_text, g_yielded, g_stored, g_response>>
    /\ UNCHANGED nonSyncVars

\* the LLM stream is exhausted
SyncEnd ==
    /\ g_pc = "stream"
    /\ g_chunks = <<>>
    /\ g_pc' = "save"
    /\ UNCHANGED <<g_chunks, g_raw, g_text, g_yielded, g_stored, g_response>>
    /\ UNCHANGED nonSyncVars

\* save_message(response=full_response), then the done frame, on which
\* process_chat_non_streaming leaves its loop and returns full_response
SyncSave ==
    /\ g_pc = "save"
    /\ \E saved \in BOOLEAN :
          g_stored' = IF saved THEN Append(g_stored, ChatStoredResponse(g_text))
                      ELSE g_stored
    /\ g_pc' = "done"
    /\ UNCHANGED <<g_chunks, g_raw, g_text, g_yielded, g_response>>
    /\ UNCHANGED nonSyncVars

NextSync ==
    \/ SyncToken
    \/ SyncEmptyChunk
    \/ SyncGeneratorError
    \/ SyncTimeout
    \/ SyncEnd
    \/ SyncSave

SpecSync == InitSync /\ [][NextSync]_vars

----------------------------------------------------------------------------
(* Properties of the token stream and of the non-streaming wrapper *)

\* C27: however the LLM output is split into chunks, the text accumulated
\* from the normalized tokens is the NFC form of the whole output.
C27_TokenwiseNFCEqualsWholeNFC ==
    g_pc = "stream" => g_text = NFC(Flatten(g_raw))

\* C28: process_chat_non_streaming returns as response the concatenation of
\* the content tokens process_chat yielded before its done frame, which is
\* the text process_chat stored.
C28_ResponseIsYieldedText ==
    g_pc = "done" =>
        /\ g_response = Flatten(g_yielded)
        /\ \A k \in 1..Len(g_stored) : g_response = g_stored[k]

----------------------------------------------------------------------------
(* Confluence load stream: routers/admin_router.py *)

MaxRuns == 2
ChunksPerPage == 2

\* the pages get_all_pages_with_content returns, in order
PageOrder == <<"P1", "P2">>
LoadPages == {PageOrder[k] : k \in 1..Len(PageOrder)}

\* updated_at of a page, as a version number
Versions == 1..2

\* text_stats['token_count'] < 30: the first version of P2 is a stub
ShortPage(p, v) == p = "P2" /\ v = 1

ZeroCounts == [success |-> 0, skip |-> 0, error |-> 0]

CurrentPage == PageOrder[l_idx]

InPage == l_pc = "run" /\ l_idx <= Len(PageOrder)

\* existing_updated_at == confluence_updated_str
Unchanged(p) == l_docs[p] = l_pages[p]

\* the page passes both skip tests and reaches add_document; found is
\* whether get_document_by_source_id returned the row (None when the page
\* has no row or the query failed)
ReachesSave(found) ==
    /\ InPage
    /\ found => l_docs[CurrentPage] # 0
    /\ ~(found /\ Unchanged(CurrentPage))
    /\ ~ShortPage(CurrentPage, l_pages[CurrentPage])

\* rows of document_chunks left by delete_chunks_by_document_id, which is
\* called for an existing document and returns 0 when the deletion fails
AfterDelete(p, found, deleted) ==
    IF found /\ deleted THEN 0 ELSE l_chunks[p]

Bump(field) == [l_counts EXCEPT ![field] = @ + 1]

InitLoad ==
    /\ StreamIdle
    /\ DetectIdle
    /\ RagIdle
    /\ ChunkIdle
    /\ TeamsIdle
    /\ NormIdle
    /\ LoopIdle
    /\ RouteIdle
    /\ SyncIdle
    /\ l_pc = "rest"
    /\ l_runs = 0
    /\ l_idx = 0
    /\ l_pages = [p \in LoadPages |-> 1]
    /\ l_docs = [p \in LoadPages |-> 0]
    /\ l_chunks = [p \in LoadPages |-> 0]
    /\ l_counts = ZeroCounts

\* a page is edited in Confluence between two load runs
PageEdited ==
    /\ l_pc = "rest"
    /\ \E p \in LoadPages :
          /\ l_pages[p] + 1 \in Versions
          /\ l_pages' = [l_pages EXCEPT ![p] = @ + 1]
    /\ UNCHANGED <<l_pc, l_runs, l_idx, l_docs, l_chunks, l_counts>>
    /\ UNCHANGED nonLoadVars

\* the endpoint is called: the pages are fetched and the counters start at 0
LoadBegin ==
    /\ l_pc = "rest"
    /\ l_runs < MaxRuns
    /\ l_runs' = l_runs + 1
    /\ l_pc' = "run"
    /\ l_idx' = 1
    /\ l_counts' = ZeroCounts
    /\ UNCHANGED <<l_pages, l_docs, l_chunks>>
    /\ UNCHANGED nonLoadVars

\* the page has a row whose updated_at equals the page's: skipped
LoadSkipUnchanged ==
    /\ InPage
    /\ l_docs[CurrentPage] # 0
    /\ Unchanged(CurrentPage)
    /\ l_counts' = Bump("skip")
    /\ l_idx' = l_idx + 1
    /\ UNCHANGED <<l_pc, l_runs, l_pages, l_docs, l_chunks>>
    /\ UNCHANGED nonLoadVars

\* the page has fewer than 30 tokens: skipped
LoadSkipShort ==
    /\ InPage
    /\ \E found \in BOOLEAN :
          /\ found => l_docs[CurrentPage] # 0
          /\ ~(found /\ Unchanged(CurrentPage))
    /\ ShortPage(CurrentPage, l_pages[CurrentPage])
    /\ l_counts' = Bump("skip")
    /\ l_idx' = l_idx + 1
    /\ UNCHANGED <<l_pc, l_runs, l_pages, l_docs, l_chunks>>
    /\ UNCHANGED nonLoadVars

\* add_document raises or returns no row: counted as an error
LoadSaveFails ==
    /\ \E found \in BOOLEAN : ReachesSave(found)
    /\ l_counts' = Bump("error")
    /\ l_idx' = l_idx + 1
    /\ UNCHANGED <<l_pc, l_runs, l_pages, l_docs, l_chunks>>
    /\ UNCHANGED nonLoadVars

\* the row is saved with the page's updated_at and the old chunks are
\* deleted; then embed_batch raises, or add_chunk raises after k chunks:
\* the handler counts an error and goes on to the next page
LoadFailsAfterSave ==
    /\ \E found \in BOOLEAN, deleted \in BOOLEAN, k \in 0..(ChunksPerPage - 1) :
          /\ ReachesSave(found)
          /\ l_chunks' = [l_chunks EXCEPT ![CurrentPage] =
                             AfterDelete(CurrentPage, found, deleted) + k]
    /\ l_docs' = [l_docs EXCEPT ![CurrentPage] = l_pages[CurrentPage]]
    /\ l_counts' = Bump("error")
    /\ l_idx' = l_idx + 1
    /\ UNCHANGED <<l_pc, l_runs, l_pages>>
    /\ UNCHANGED nonLoadVars

\* the row is saved, the old chunks are deleted, and every chunk of the
\* page is embedded and inserted
LoadPageCompleted ==
    /\ \E found \in BOOLEAN, deleted \in BOOLEAN :
          /\ ReachesSave(found)
          /\ l_chunks' = [l_chunks EXCEPT ![CurrentPage] =
                             AfterDelete(CurrentPage, found, deleted)
                                 + ChunksPerPage]
    /\ l_docs' = [l_docs EXCEPT ![CurrentPage] = l_pages[CurrentPage]]
    /\ l_counts' = Bump("success")
    /\ l_idx' = l_idx + 1
    /\ UNCHANGED <<l_pc, l_runs, l_pages>>
    /\ UNCHANGED nonLoadVars

\* every page has been handled: the completed frame ends the stream
LoadCompleted ==
    /\ l_pc = "run"
    /\ l_idx > Len(PageOrder)
    /\ l_pc' = "rest"
    /\ UNCHANGED <<l_runs, l_idx, l_pages, l_docs, l_chunks, l_counts>>
    /\ UNCHANGED nonLoadVars

NextLoad ==
    \/ PageEdited
    \/ LoadBegin
    \/ LoadSkipUnchanged
    \/ LoadSkipShort
    \/ LoadSaveFails
    \/ LoadFailsAfterSave
    \/ LoadPageCompleted
    \/ LoadCompleted

SpecLoad == InitLoad /\ [][NextLoad]_vars

----------------------------------------------------------------------------
(* Properties of the Confluence load stream *)

\* C29: a page whose processing failed after its documents row was saved
\* is processed again by a later run: a load run skips a page as unchanged
\* only when the chunks of the page are stored.
C29_FailedPageIsRetried ==
    [][LoadSkipUnchanged => l_chunks[CurrentPage] >= ChunksPerPage]_vars

====
